---- MODULE Spec2Model ----
(***************************************************************************)
(* Threaded QMC integration of DCA++: StdThreadQmciClusterSolver.           *)
(* Walker threads, accumulator threads and combined threads, the idle      *)
(* accumulator stack, the two measurement-dispatch regimes and the join    *)
(* performed by integrate(); the coordinator's constructor, finalize and   *)
(* configuration snapshots; linalg::MatrixView; and the time               *)
(* symmetrization of symmetrize_single_particle_function.                  *)
(***************************************************************************)
EXTENDS Integers, Sequences, FiniteSets, TLC

\* Bounds of the explored configurations: the size of the task table (the
\* number of pool threads) and the configured number of measurements.
MaxThreads == 3
MaxMeasurements == 2

\* nullptr for acc_ptr, and "no owner" for the two mutexes.
NoThread == 0 - 1

VARIABLES
  parameters_,         \* walkers, accumulators, shared, fix_meas, measurements, warm_up
  concurrency_,        \* id, number_of_processors
  walk_finished_,      \* std::atomic<int>
  measurements_done_,  \* std::atomic<uint>
  accumulators_queue_, \* the idle stack, top is the last element
  mutex_queue_,        \* owner of mutex_queue_ or NoThread
  mutex_merge_,        \* owner of mutex_merge_ or NoThread
  queue_insertion_,    \* threads blocked in queue_insertion_.wait
  config_dump_,        \* per walker index: 0 = empty buffer
  accumulator_,        \* the global accumulator of the embedded solver
  pc,                  \* position of each pool thread
  meas_id,             \* loop variable of iterateOverLocalMeasurements
  acc_ptr,             \* accumulator popped by a walker
  walker,              \* the Walker object of each walker-owning thread
  accumulator_obj,     \* the accumulator object of each accumulating thread
  mainpc,              \* position of the thread calling initialize/integrate
  future_idx,          \* index of the future integrate() is joining
  \* Coordinator lifecycle and snapshots.
  hdf5_files,          \* the archives on disk, by <<directory, process id>>
  dca_iteration_,      \* iteration handed to the last initialize
  calls,               \* what the handler that ran last called, in order
  pool_size,           \* threads of ThreadPool::get_instance()
  handle_size,         \* size of the handle container
  run,                 \* coordinators constructed so far
  \* linalg::MatrixView.
  storage,             \* the cells of the matrix, by address
  mat,                 \* the Matrix: ptr, ld, rows, cols
  view,                \* the MatrixView, if constructed: ptr_, ldm_, size_
  ops,                 \* the view operations that ran, with their outcomes
  \* symmetrize_single_particle_function.
  f,                   \* the function being symmetrized
  f_in,                \* the function as passed to execute, with its domain
  assigned,            \* assignments of execute to each element
  executed,            \* the overload of execute that ran
  do_diff,             \* the flag passed to execute
  max,                 \* the residual computed by the last pass
  cout,                \* the residuals printed by difference, in order
  exception,           \* the exception that left execute, or ""
  passes               \* calls of execute so far

vars == <<parameters_, concurrency_, walk_finished_, measurements_done_,
          accumulators_queue_, mutex_queue_, mutex_merge_, queue_insertion_,
          config_dump_, accumulator_, pc, meas_id, acc_ptr, walker,
          accumulator_obj, mainpc, future_idx,
          hdf5_files, dca_iteration_, calls, pool_size, handle_size, run,
          storage, mat, view, ops, f, f_in, assigned, executed,
          do_diff, max, cout, exception, passes>>

\* The coordinator and its threads.
solver_vars == <<parameters_, concurrency_, walk_finished_, measurements_done_,
                 accumulators_queue_, mutex_queue_, mutex_merge_,
                 queue_insertion_, config_dump_, accumulator_, pc, meas_id,
                 acc_ptr, walker, accumulator_obj, mainpc, future_idx>>

\* The three groups of state besides the threads of one integrate().
lifecycle_vars == <<hdf5_files, dca_iteration_, calls, pool_size, handle_size,
                    run>>
view_vars == <<storage, mat, view, ops>>
symmetrize_vars == <<f, f_in, assigned, executed, do_diff, max, cout,
                     exception, passes>>
other_vars == <<lifecycle_vars, view_vars, symmetrize_vars>>

Min(a, b) == IF a < b THEN a ELSE b

-----------------------------------------------------------------------------
\* Work partitioner: split(total, n, i).
getWorkload(total, n, i) == (total \div n) + (IF i < total % n THEN 1 ELSE 0)

\* Thread-task table: S combined threads first, then the remaining walkers,
\* then the remaining accumulators.
generateThreadTasksVec(num_walkers, num_accumulators, sh) ==
  LET S == IF sh THEN Min(num_walkers, num_accumulators) ELSE 0
      nw == num_walkers - S
      na == num_accumulators - S
  IN  [i \in 1..(S + nw + na) |->
         IF i <= S THEN "walker and accumulator"
         ELSE IF i <= S + nw THEN "walker"
         ELSE "accumulator"]

thread_task_handler_ ==
  generateThreadTasksVec(parameters_.walkers, parameters_.accumulators,
                         parameters_.shared)

Threads == 0..(Len(thread_task_handler_) - 1)

getTask(i) == thread_task_handler_[i + 1]

\* Index of a walker thread in [0, W): the walker-owning entries before it.
walkerIDToRngIndex(id) ==
  Cardinality({i \in 0..(id - 1) :
                 getTask(i) \in {"walker", "walker and accumulator"}})

\* Walker index used by thread t: startWalker maps the id, the combined
\* thread uses its id directly.
walker_index(t) == IF getTask(t) = "walker" THEN walkerIDToRngIndex(t) ELSE t

WalkerThreads == {t \in Threads : getTask(t) = "walker"}
AccumulatorThreads == {t \in Threads : getTask(t) = "accumulator"}
CombinedThreads == {t \in Threads : getTask(t) = "walker and accumulator"}

\* iterateOverLocalMeasurements: total_meas and n_local_meas.
total_meas ==
  getWorkload(parameters_.measurements, concurrency_.number_of_processors,
              concurrency_.id)

n_local_meas(t) ==
  IF parameters_.fix_meas
    THEN getWorkload(total_meas, parameters_.walkers, walker_index(t))
    ELSE total_meas

-----------------------------------------------------------------------------
\* Objects as constructed.
\* trace: the calls made on the walker or with it (updateFrom) so far, in
\* order, each with its argument or result (the buffer of readConfig and
\* dumpConfig, else 0).
NewWalker == [initialized |-> 0, read_config |-> 0, sweeps |-> 0,
              thermalized |-> FALSE, trace |-> <<>>]

NewAccumulator == [initialized |-> FALSE, measuring |-> FALSE, done |-> FALSE,
                   updates |-> 0, measures |-> 0, lost |-> 0, summed |-> 0]

NewGlobalAccumulator == [samples |-> 0, sums |-> 0, finalized |-> 0]

\* Warm-up lengths and process layouts of the explored runs.
WarmUpSweeps == {0, 1}

Processes == {[id |-> 0, number_of_processors |-> 1],
              [id |-> 1, number_of_processors |-> 2]}

Configurations ==
  {c \in [walkers : 1..MaxThreads, accumulators : 1..MaxThreads,
          shared : BOOLEAN, fix_meas : BOOLEAN,
          measurements : 0..MaxMeasurements, warm_up : WarmUpSweeps] :
     Len(generateThreadTasksVec(c.walkers, c.accumulators, c.shared))
       <= MaxThreads}

\* The parts of the state a specification does not exercise.
NoLifecycle ==
  /\ hdf5_files = <<>>
  /\ dca_iteration_ = 0
  /\ calls = <<>>
  /\ pool_size = 0
  /\ handle_size = 0
  /\ run = 0

NoSolver ==
  /\ parameters_ = <<>>
  /\ concurrency_ = <<>>
  /\ walk_finished_ = 0
  /\ measurements_done_ = 0
  /\ accumulators_queue_ = <<>>
  /\ mutex_queue_ = NoThread
  /\ mutex_merge_ = NoThread
  /\ queue_insertion_ = {}
  /\ config_dump_ = <<>>
  /\ accumulator_ = <<>>
  /\ pc = <<>>
  /\ meas_id = <<>>
  /\ acc_ptr = <<>>
  /\ walker = <<>>
  /\ accumulator_obj = <<>>
  /\ mainpc = "none"
  /\ future_idx = 0

NoView ==
  /\ storage = <<>>
  /\ mat = <<>>
  /\ view = <<>>
  /\ ops = <<>>

NoFunction ==
  /\ f = <<>>
  /\ f_in = <<>>
  /\ assigned = <<>>
  /\ executed = "none"
  /\ do_diff = FALSE
  /\ max = 0
  /\ cout = <<>>
  /\ exception = ""
  /\ passes = 0

\* State after the constructor with an empty read directory.
Init ==
  /\ parameters_ \in Configurations
  /\ concurrency_ \in Processes
  /\ walk_finished_ = 0
  /\ measurements_done_ = 0
  /\ accumulators_queue_ = <<>>
  /\ mutex_queue_ = NoThread
  /\ mutex_merge_ = NoThread
  /\ queue_insertion_ = {}
  /\ config_dump_ = [w \in 0..(parameters_.walkers - 1) |-> 0]
  /\ accumulator_ = NewGlobalAccumulator
  /\ pc = [t \in Threads |-> "idle"]
  /\ meas_id = [t \in Threads |-> 0]
  /\ acc_ptr = [t \in Threads |-> NoThread]
  /\ walker = [t \in Threads |-> NewWalker]
  /\ accumulator_obj = [t \in Threads |-> NewAccumulator]
  /\ mainpc = "constructed"
  /\ future_idx = 0
  /\ NoLifecycle
  /\ NoView
  /\ NoFunction

-----------------------------------------------------------------------------
\* initialize(dca_iteration): both atomic counters are reset.
Initialize ==
  /\ mainpc = "constructed"
  /\ walk_finished_' = 0
  /\ measurements_done_' = 0
  /\ mainpc' = "initialized"
  /\ UNCHANGED <<other_vars, parameters_, concurrency_, accumulators_queue_, mutex_queue_,
                 mutex_merge_, queue_insertion_, config_dump_, accumulator_,
                 pc, meas_id, acc_ptr, walker, accumulator_obj, future_idx>>

\* integrate(): one task per entry of the task table is enqueued on the pool,
\* which was enlarged to the size of the table by the constructor.
IntegrateSpawn ==
  /\ mainpc = "initialized"
  /\ pc' = [t \in Threads |-> "start"]
  /\ meas_id' = [t \in Threads |-> 0]
  /\ acc_ptr' = [t \in Threads |-> NoThread]
  /\ walker' = [t \in Threads |-> NewWalker]
  /\ accumulator_obj' = [t \in Threads |-> NewAccumulator]
  /\ future_idx' = 0
  /\ mainpc' = "joining"
  /\ UNCHANGED <<other_vars, parameters_, concurrency_, walk_finished_, measurements_done_,
                 accumulators_queue_, mutex_queue_, mutex_merge_,
                 queue_insertion_, config_dump_, accumulator_>>

\* Variant: the join does not wait for the task to complete.
IntegrateJoin_NoWait ==
  /\ mainpc = "joining"
  /\ future_idx < Len(thread_task_handler_)
  /\ future_idx' = future_idx + 1
  /\ UNCHANGED <<other_vars, parameters_, concurrency_, walk_finished_, measurements_done_,
                 accumulators_queue_, mutex_queue_, mutex_merge_,
                 queue_insertion_, config_dump_, accumulator_, pc, meas_id,
                 acc_ptr, walker, accumulator_obj, mainpc>>

\* for (auto& future : futures) future.get();  -- a completed task.
IntegrateJoin ==
  /\ mainpc = "joining"
  /\ future_idx < Len(thread_task_handler_)
  /\ pc[future_idx] = "finished"
  /\ future_idx' = future_idx + 1
  /\ UNCHANGED <<other_vars, parameters_, concurrency_, walk_finished_, measurements_done_,
                 accumulators_queue_, mutex_queue_, mutex_merge_,
                 queue_insertion_, config_dump_, accumulator_, pc, meas_id,
                 acc_ptr, walker, accumulator_obj, mainpc>>

\* assert(walk_finished_ == get_walkers()); accumulator_.finalize().
IntegrateReturn ==
  /\ mainpc = "joining"
  /\ future_idx = Len(thread_task_handler_)
  /\ IF walk_finished_ = parameters_.walkers
       THEN /\ accumulator_' = [accumulator_ EXCEPT !.finalized = @ + 1]
            /\ mainpc' = "integrated"
       ELSE /\ mainpc' = "assert_failed"
            /\ UNCHANGED accumulator_
  /\ UNCHANGED <<other_vars, parameters_, concurrency_, walk_finished_, measurements_done_,
                 accumulators_queue_, mutex_queue_, mutex_merge_,
                 queue_insertion_, config_dump_, pc, meas_id, acc_ptr, walker,
                 accumulator_obj, future_idx>>

-----------------------------------------------------------------------------
\* Variant: the walker is initialized before its snapshot is read.
initializeAndWarmUp_InitializeFirst(w, walker_id) ==
  [w EXCEPT !.read_config = IF config_dump_[walker_id] # 0 THEN @ + 1 ELSE @,
            !.initialized = @ + 1,
            !.sweeps = @ + parameters_.warm_up,
            !.thermalized = TRUE,
            !.trace = @ \o <<<<"initialize", 0>>>> \o
                      (IF config_dump_[walker_id] # 0
                         THEN <<<<"readConfig", config_dump_[walker_id]>>>>
                         ELSE <<>>) \o
                      [i \in 1..parameters_.warm_up |-> <<"doSweep", 0>>] \o
                      <<<<"is_thermalized", 0>>>>]

\* Variant: the walker is marked thermalized before its warm-up sweeps.
initializeAndWarmUp_ThermalizedFirst(w, walker_id) ==
  [w EXCEPT !.read_config = IF config_dump_[walker_id] # 0 THEN @ + 1 ELSE @,
            !.initialized = @ + 1,
            !.sweeps = @ + parameters_.warm_up,
            !.thermalized = TRUE,
            !.trace = @ \o
                      (IF config_dump_[walker_id] # 0
                         THEN <<<<"readConfig", config_dump_[walker_id]>>>>
                         ELSE <<>>) \o
                      <<<<"initialize", 0>>, <<"is_thermalized", 0>>>> \o
                      [i \in 1..parameters_.warm_up |-> <<"doSweep", 0>>]]

\* initializeAndWarmUp applied to walker object w of walker index walker_id:
\* readConfig if the buffer is not empty, initialize, the warm-up sweeps,
\* is_thermalized() = true.
initializeAndWarmUp(w, walker_id) ==
  [w EXCEPT !.read_config = IF config_dump_[walker_id] # 0 THEN @ + 1 ELSE @,
            !.initialized = @ + 1,
            !.sweeps = @ + parameters_.warm_up,
            !.thermalized = TRUE,
            !.trace = @ \o
                      (IF config_dump_[walker_id] # 0
                         THEN <<<<"readConfig", config_dump_[walker_id]>>>>
                         ELSE <<>>) \o
                      <<<<"initialize", 0>>>> \o
                      [i \in 1..parameters_.warm_up |-> <<"doSweep", 0>>] \o
                      <<<<"is_thermalized", 0>>>>]

\* Variant: the loop test admits one iteration too many.
LoopTarget_OffByOne(t, m) ==
  IF m <= n_local_meas(t) THEN "sweep" ELSE "loop_exit"

\* The loop test of iterateOverLocalMeasurements for counter value m.
LoopTarget(t, m) == IF m < n_local_meas(t) THEN "sweep" ELSE "loop_exit"

\* startWalker up to the call of iterateOverLocalMeasurements.
WalkerStart(t) ==
  /\ getTask(t) = "walker"
  /\ pc[t] = "start"
  /\ walker' = [walker EXCEPT ![t] = initializeAndWarmUp(@, walker_index(t))]
  /\ pc' = [pc EXCEPT ![t] = "loop_enter"]
  /\ UNCHANGED <<other_vars, parameters_, concurrency_, walk_finished_, measurements_done_,
                 accumulators_queue_, mutex_queue_, mutex_merge_,
                 queue_insertion_, config_dump_, accumulator_, meas_id,
                 acc_ptr, accumulator_obj, mainpc, future_idx>>

\* Loop initialisation: meas_id = 0, or meas_id = measurements_done_.
LoopEnter(t) ==
  /\ pc[t] = "loop_enter"
  /\ LET m == IF parameters_.fix_meas THEN 0 ELSE measurements_done_
     IN  /\ meas_id' = [meas_id EXCEPT ![t] = m]
         /\ pc' = [pc EXCEPT ![t] = LoopTarget(t, m)]
  /\ UNCHANGED <<other_vars, parameters_, concurrency_, walk_finished_, measurements_done_,
                 accumulators_queue_, mutex_queue_, mutex_merge_,
                 queue_insertion_, config_dump_, accumulator_, acc_ptr, walker,
                 accumulator_obj, mainpc, future_idx>>

\* Loop increment: ++meas_id, or meas_id = ++measurements_done_.
LoopNext(t) ==
  /\ pc[t] = "loop_next"
  /\ IF parameters_.fix_meas
       THEN /\ meas_id' = [meas_id EXCEPT ![t] = @ + 1]
            /\ pc' = [pc EXCEPT ![t] = LoopTarget(t, meas_id[t] + 1)]
            /\ UNCHANGED measurements_done_
       ELSE /\ measurements_done_' = measurements_done_ + 1
            /\ meas_id' = [meas_id EXCEPT ![t] = measurements_done_ + 1]
            /\ pc' = [pc EXCEPT ![t] = LoopTarget(t, measurements_done_ + 1)]
  /\ UNCHANGED <<other_vars, parameters_, concurrency_, walk_finished_,
                 accumulators_queue_, mutex_queue_, mutex_merge_,
                 queue_insertion_, config_dump_, accumulator_, acc_ptr, walker,
                 accumulator_obj, mainpc, future_idx>>

\* walker.doSweep() at the head of the loop body.
DoSweep(t) ==
  /\ pc[t] = "sweep"
  /\ walker' = [walker EXCEPT ![t].sweeps = @ + 1,
                               ![t].trace = Append(@, <<"doSweep", 0>>)]
  /\ pc' = [pc EXCEPT ![t] = IF getTask(t) = "walker" THEN "wait_queue"
                                                      ELSE "update"]
  /\ UNCHANGED <<other_vars, parameters_, concurrency_, walk_finished_, measurements_done_,
                 accumulators_queue_, mutex_queue_, mutex_merge_,
                 queue_insertion_, config_dump_, accumulator_, meas_id,
                 acc_ptr, accumulator_obj, mainpc, future_idx>>

\* The stack operations of std::stack over std::vector.
top(q) == q[Len(q)]
\* Variant: the popped accumulator stays on the stack.
pop_KeepTop(q) == q
pop(q) == SubSeq(q, 1, Len(q) - 1)
\* Variant: the accumulator is pushed although it is on the stack already.
push_Twice(q, a) == Append(Append(q, a), a)
push(q, a) == Append(q, a)

\* queue_insertion_.wait(lock, !empty); acc_ptr = top(); pop();
\* With the queue empty the walker releases the mutex and blocks.
WalkerWaitQueue(t) ==
  /\ pc[t] = "wait_queue"
  /\ mutex_queue_ = NoThread
  /\ IF accumulators_queue_ # <<>>
       THEN /\ acc_ptr' = [acc_ptr EXCEPT ![t] = top(accumulators_queue_)]
            /\ accumulators_queue_' = pop(accumulators_queue_)
            /\ pc' = [pc EXCEPT ![t] = "update"]
            /\ UNCHANGED queue_insertion_
       ELSE /\ queue_insertion_' = queue_insertion_ \cup {t}
            /\ pc' = [pc EXCEPT ![t] = "waiting"]
            /\ UNCHANGED <<other_vars, acc_ptr, accumulators_queue_>>
  /\ UNCHANGED <<other_vars, parameters_, concurrency_, walk_finished_, measurements_done_,
                 mutex_queue_, mutex_merge_, config_dump_, accumulator_,
                 meas_id, walker, accumulator_obj, mainpc, future_idx>>

\* updateFrom: the sample is copied into the accumulator, which is flagged as
\* holding a sample; a sample still held unmeasured is overwritten.
updateFrom(a) ==
  [a EXCEPT !.updates = @ + 1,
            !.lost = IF a.measuring THEN @ + 1 ELSE @,
            !.measuring = TRUE]

\* Variant: measure does not look at the terminate flag.
measure_Always(a) == [a EXCEPT !.measures = @ + 1, !.measuring = FALSE]

\* measure: a no-op once notifyDone was called, else the held sample is
\* measured.
measure(a) ==
  IF a.done \/ ~a.measuring THEN a
  ELSE [a EXCEPT !.measures = @ + 1, !.measuring = FALSE]

\* notifyDone: the terminate flag wakes the waiting accumulator thread.
notifyDone(a) == [a EXCEPT !.done = TRUE]

\* acc_ptr->updateFrom(walker) in the walker thread.
WalkerUpdate(t) ==
  /\ getTask(t) = "walker"
  /\ pc[t] = "update"
  /\ accumulator_obj' =
       [accumulator_obj EXCEPT ![acc_ptr[t]] = updateFrom(@)]
  /\ acc_ptr' = [acc_ptr EXCEPT ![t] = NoThread]
  /\ walker' = [walker EXCEPT ![t].trace = Append(@, <<"updateFrom", 0>>)]
  /\ pc' = [pc EXCEPT ![t] = "loop_next"]
  /\ UNCHANGED <<other_vars, parameters_, concurrency_, walk_finished_, measurements_done_,
                 accumulators_queue_, mutex_queue_, mutex_merge_,
                 queue_insertion_, config_dump_, accumulator_, meas_id,
                 mainpc, future_idx>>

\* Variant: the last walker does not drain the idle stack.
WalkerFinish_NoDrain(t) ==
  /\ getTask(t) = "walker"
  /\ pc[t] = "loop_exit"
  /\ walk_finished_' = walk_finished_ + 1
  /\ pc' = [pc EXCEPT ![t] = "dump"]
  /\ UNCHANGED <<other_vars, parameters_, concurrency_, measurements_done_,
                 accumulators_queue_, mutex_queue_, mutex_merge_,
                 queue_insertion_, config_dump_, accumulator_, meas_id,
                 acc_ptr, walker, accumulator_obj, mainpc, future_idx>>

\* Variant: every walker that finishes goes on to drain the idle stack.
WalkerFinish_AllDrain(t) ==
  /\ getTask(t) = "walker"
  /\ pc[t] = "loop_exit"
  /\ walk_finished_' = walk_finished_ + 1
  /\ pc' = [pc EXCEPT ![t] = "drain_lock"]
  /\ UNCHANGED <<other_vars, parameters_, concurrency_, measurements_done_,
                 accumulators_queue_, mutex_queue_, mutex_merge_,
                 queue_insertion_, config_dump_, accumulator_, meas_id,
                 acc_ptr, walker, accumulator_obj, mainpc, future_idx>>

\* if (++walk_finished_ == get_walkers()) the walker goes on to drain.
WalkerFinish(t) ==
  /\ getTask(t) = "walker"
  /\ pc[t] = "loop_exit"
  /\ walk_finished_' = walk_finished_ + 1
  /\ pc' = [pc EXCEPT ![t] = IF walk_finished_ + 1 = parameters_.walkers
                               THEN "drain_lock" ELSE "dump"]
  /\ UNCHANGED <<other_vars, parameters_, concurrency_, measurements_done_,
                 accumulators_queue_, mutex_queue_, mutex_merge_,
                 queue_insertion_, config_dump_, accumulator_, meas_id,
                 acc_ptr, walker, accumulator_obj, mainpc, future_idx>>

\* std::lock_guard<std::mutex> lock(mutex_queue_) of the last walker.
WalkerDrainLock(t) ==
  /\ pc[t] = "drain_lock"
  /\ mutex_queue_ = NoThread
  /\ mutex_queue_' = t
  /\ pc' = [pc EXCEPT ![t] = "drain"]
  /\ UNCHANGED <<other_vars, parameters_, concurrency_, walk_finished_, measurements_done_,
                 accumulators_queue_, mutex_merge_, queue_insertion_,
                 config_dump_, accumulator_, meas_id, acc_ptr, walker,
                 accumulator_obj, mainpc, future_idx>>

\* Variant: the drain signals the top accumulator only and releases the lock.
WalkerDrain_TopOnly(t) ==
  /\ pc[t] = "drain"
  /\ IF accumulators_queue_ # <<>>
       THEN /\ accumulator_obj' =
                 [accumulator_obj EXCEPT ![top(accumulators_queue_)] =
                                            notifyDone(@)]
            /\ accumulators_queue_' = pop(accumulators_queue_)
       ELSE UNCHANGED <<accumulators_queue_, accumulator_obj>>
  /\ mutex_queue_' = NoThread
  /\ pc' = [pc EXCEPT ![t] = "dump"]
  /\ UNCHANGED <<other_vars, parameters_, concurrency_, walk_finished_, measurements_done_,
                 mutex_merge_, queue_insertion_, config_dump_, accumulator_,
                 meas_id, acc_ptr, walker, mainpc, future_idx>>

\* while (size()) { top()->notifyDone(); pop(); } and the release of the lock.
WalkerDrain(t) ==
  /\ pc[t] = "drain"
  /\ IF accumulators_queue_ # <<>>
       THEN /\ accumulator_obj' =
                 [accumulator_obj EXCEPT ![top(accumulators_queue_)] =
                                            notifyDone(@)]
            /\ accumulators_queue_' = pop(accumulators_queue_)
            /\ UNCHANGED <<other_vars, mutex_queue_, pc>>
       ELSE /\ mutex_queue_' = NoThread
            /\ pc' = [pc EXCEPT ![t] = "dump"]
            /\ UNCHANGED <<other_vars, accumulators_queue_, accumulator_obj>>
  /\ UNCHANGED <<other_vars, parameters_, concurrency_, walk_finished_, measurements_done_,
                 mutex_merge_, queue_insertion_, config_dump_, accumulator_,
                 meas_id, acc_ptr, walker, mainpc, future_idx>>

\* walker.dumpConfig(): the buffer names the thread that wrote it and the
\* iteration it was written in; it is never the empty buffer 0.
dumpConfig(t) == dca_iteration_ * MaxThreads + t + 1

\* Variant: every walker dumps into slot 0.
DumpConfig_SlotZero(t) ==
  /\ pc[t] = "dump"
  /\ config_dump_' = [config_dump_ EXCEPT ![0] = dumpConfig(t)]
  /\ walker' = [walker EXCEPT
                  ![t].trace = Append(@, <<"dumpConfig", dumpConfig(t)>>)]
  /\ pc' = [pc EXCEPT ![t] = "finished"]
  /\ UNCHANGED <<other_vars, parameters_, concurrency_, walk_finished_, measurements_done_,
                 accumulators_queue_, mutex_queue_, mutex_merge_,
                 queue_insertion_, accumulator_, meas_id, acc_ptr,
                 accumulator_obj, mainpc, future_idx>>

\* config_dump_[walker_index] = walker.dumpConfig().
DumpConfig(t) ==
  /\ pc[t] = "dump"
  /\ config_dump_' = [config_dump_ EXCEPT ![walker_index(t)] = dumpConfig(t)]
  /\ walker' = [walker EXCEPT
                  ![t].trace = Append(@, <<"dumpConfig", dumpConfig(t)>>)]
  /\ pc' = [pc EXCEPT ![t] = "finished"]
  /\ UNCHANGED <<other_vars, parameters_, concurrency_, walk_finished_, measurements_done_,
                 accumulators_queue_, mutex_queue_, mutex_merge_,
                 queue_insertion_, accumulator_, meas_id, acc_ptr,
                 accumulator_obj, mainpc, future_idx>>

-----------------------------------------------------------------------------
\* startAccumulator up to the loop.
AccumulatorStart(t) ==
  /\ getTask(t) = "accumulator"
  /\ pc[t] = "start"
  /\ accumulator_obj' = [accumulator_obj EXCEPT ![t].initialized = TRUE]
  /\ pc' = [pc EXCEPT ![t] = "lock_queue"]
  /\ UNCHANGED <<other_vars, parameters_, concurrency_, walk_finished_, measurements_done_,
                 accumulators_queue_, mutex_queue_, mutex_merge_,
                 queue_insertion_, config_dump_, accumulator_, meas_id,
                 acc_ptr, walker, mainpc, future_idx>>

\* Variant: the accumulator pushes without looking at walk_finished_.
AccumulatorLockQueue_NoCheck(t) ==
  /\ pc[t] = "lock_queue"
  /\ mutex_queue_ = NoThread
  /\ mutex_queue_' = t
  /\ pc' = [pc EXCEPT ![t] = "push"]
  /\ UNCHANGED <<other_vars, parameters_, concurrency_, walk_finished_, measurements_done_,
                 accumulators_queue_, mutex_merge_, queue_insertion_,
                 config_dump_, accumulator_, meas_id, acc_ptr, walker,
                 accumulator_obj, mainpc, future_idx>>

\* lock_guard lock(mutex_queue_); if (walk_finished_ == get_walkers()) break;
AccumulatorLockQueue(t) ==
  /\ pc[t] = "lock_queue"
  /\ mutex_queue_ = NoThread
  /\ IF walk_finished_ = parameters_.walkers
       THEN /\ pc' = [pc EXCEPT ![t] = "merge_lock"]
            /\ UNCHANGED mutex_queue_
       ELSE /\ mutex_queue_' = t
            /\ pc' = [pc EXCEPT ![t] = "push"]
  /\ UNCHANGED <<other_vars, parameters_, concurrency_, walk_finished_, measurements_done_,
                 accumulators_queue_, mutex_merge_, queue_insertion_,
                 config_dump_, accumulator_, meas_id, acc_ptr, walker,
                 accumulator_obj, mainpc, future_idx>>

\* accumulators_queue_.push(&accumulator_obj); the lock is released.
AccumulatorPush(t) ==
  /\ pc[t] = "push"
  /\ accumulators_queue_' = push(accumulators_queue_, t)
  /\ mutex_queue_' = NoThread
  /\ pc' = [pc EXCEPT ![t] = "notify"]
  /\ UNCHANGED <<other_vars, parameters_, concurrency_, walk_finished_, measurements_done_,
                 mutex_merge_, queue_insertion_, config_dump_, accumulator_,
                 meas_id, acc_ptr, walker, accumulator_obj, mainpc, future_idx>>

\* Variant: the push is not followed by a notification.
AccumulatorNotify_Lost(t) ==
  /\ pc[t] = "notify"
  /\ pc' = [pc EXCEPT ![t] = "wait_walker"]
  /\ UNCHANGED <<other_vars, parameters_, concurrency_, walk_finished_, measurements_done_,
                 accumulators_queue_, mutex_queue_, mutex_merge_,
                 queue_insertion_, config_dump_, accumulator_, meas_id,
                 acc_ptr, walker, accumulator_obj, mainpc, future_idx>>

\* queue_insertion_.notify_one(): one blocked walker, if any, is woken and
\* has to take the mutex again.
AccumulatorNotify(t) ==
  /\ pc[t] = "notify"
  /\ IF queue_insertion_ = {}
       THEN /\ pc' = [pc EXCEPT ![t] = "wait_walker"]
            /\ UNCHANGED queue_insertion_
       ELSE \E w \in queue_insertion_ :
              /\ queue_insertion_' = queue_insertion_ \ {w}
              /\ pc' = [pc EXCEPT ![t] = "wait_walker", ![w] = "wait_queue"]
  /\ UNCHANGED <<other_vars, parameters_, concurrency_, walk_finished_, measurements_done_,
                 accumulators_queue_, mutex_queue_, mutex_merge_, config_dump_,
                 accumulator_, meas_id, acc_ptr, walker, accumulator_obj,
                 mainpc, future_idx>>

\* accumulator_obj.waitForQmciWalker(): blocks until updateFrom or notifyDone.
AccumulatorWait(t) ==
  /\ pc[t] = "wait_walker"
  /\ accumulator_obj[t].measuring \/ accumulator_obj[t].done
  /\ pc' = [pc EXCEPT ![t] = "measure"]
  /\ UNCHANGED <<other_vars, parameters_, concurrency_, walk_finished_, measurements_done_,
                 accumulators_queue_, mutex_queue_, mutex_merge_,
                 queue_insertion_, config_dump_, accumulator_, meas_id,
                 acc_ptr, walker, accumulator_obj, mainpc, future_idx>>

\* accumulator_obj.measure() and the jump back to the head of the loop.
AccumulatorMeasure(t) ==
  /\ getTask(t) = "accumulator"
  /\ pc[t] = "measure"
  /\ accumulator_obj' = [accumulator_obj EXCEPT ![t] = measure(@)]
  /\ pc' = [pc EXCEPT ![t] = "lock_queue"]
  /\ UNCHANGED <<other_vars, parameters_, concurrency_, walk_finished_, measurements_done_,
                 accumulators_queue_, mutex_queue_, mutex_merge_,
                 queue_insertion_, config_dump_, accumulator_, meas_id,
                 acc_ptr, walker, mainpc, future_idx>>

\* Variant: the merge proceeds without owning mutex_merge_.
MergeLock_NoExclusion(t) ==
  /\ pc[t] = "merge_lock"
  /\ mutex_merge_' = t
  /\ pc' = [pc EXCEPT ![t] = "sum_to"]
  /\ UNCHANGED <<other_vars, parameters_, concurrency_, walk_finished_, measurements_done_,
                 accumulators_queue_, mutex_queue_, queue_insertion_,
                 config_dump_, accumulator_, meas_id, acc_ptr, walker,
                 accumulator_obj, mainpc, future_idx>>

\* std::lock_guard<std::mutex> lock(mutex_merge_).
MergeLock(t) ==
  /\ pc[t] = "merge_lock"
  /\ mutex_merge_ = NoThread
  /\ mutex_merge_' = t
  /\ pc' = [pc EXCEPT ![t] = "sum_to"]
  /\ UNCHANGED <<other_vars, parameters_, concurrency_, walk_finished_, measurements_done_,
                 accumulators_queue_, mutex_queue_, queue_insertion_,
                 config_dump_, accumulator_, meas_id, acc_ptr, walker,
                 accumulator_obj, mainpc, future_idx>>

\* accumulator_obj.sumTo(QmciSolver::accumulator_) and the release of the
\* merge lock; the accumulator thread is finished, the combined thread goes
\* on to dump its walker.
SumTo(t) ==
  /\ pc[t] = "sum_to"
  /\ accumulator_' = [accumulator_ EXCEPT
                        !.samples = @ + accumulator_obj[t].measures,
                        !.sums = @ + 1]
  /\ accumulator_obj' = [accumulator_obj EXCEPT ![t].summed = @ + 1]
  /\ mutex_merge_' = NoThread
  /\ pc' = [pc EXCEPT ![t] = IF getTask(t) = "accumulator" THEN "finished"
                                                           ELSE "dump"]
  /\ UNCHANGED <<other_vars, parameters_, concurrency_, walk_finished_, measurements_done_,
                 accumulators_queue_, mutex_queue_, queue_insertion_,
                 config_dump_, meas_id, acc_ptr, walker, mainpc, future_idx>>

-----------------------------------------------------------------------------
\* startWalkerAndAccumulator up to the call of iterateOverLocalMeasurements:
\* walker.initialize(), initializeAndWarmUp, accumulator_obj.initialize.
CombinedStart(t) ==
  /\ getTask(t) = "walker and accumulator"
  /\ pc[t] = "start"
  /\ walker' = [walker EXCEPT ![t] =
                  initializeAndWarmUp(
                    [@ EXCEPT !.initialized = @ + 1,
                              !.trace = Append(@, <<"initialize", 0>>)], t)]
  /\ accumulator_obj' = [accumulator_obj EXCEPT ![t].initialized = TRUE]
  /\ pc' = [pc EXCEPT ![t] = "loop_enter"]
  /\ UNCHANGED <<other_vars, parameters_, concurrency_, walk_finished_, measurements_done_,
                 accumulators_queue_, mutex_queue_, mutex_merge_,
                 queue_insertion_, config_dump_, accumulator_, meas_id,
                 acc_ptr, mainpc, future_idx>>

\* accumulator_obj.updateFrom(walker) of the combined thread.
CombinedUpdate(t) ==
  /\ getTask(t) = "walker and accumulator"
  /\ pc[t] = "update"
  /\ accumulator_obj' = [accumulator_obj EXCEPT ![t] = updateFrom(@)]
  /\ walker' = [walker EXCEPT ![t].trace = Append(@, <<"updateFrom", 0>>)]
  /\ pc' = [pc EXCEPT ![t] = "measure"]
  /\ UNCHANGED <<other_vars, parameters_, concurrency_, walk_finished_, measurements_done_,
                 accumulators_queue_, mutex_queue_, mutex_merge_,
                 queue_insertion_, config_dump_, accumulator_, meas_id,
                 acc_ptr, mainpc, future_idx>>

\* Variant: the combined thread skips the measurement of its sample.
CombinedMeasure_Skip(t) ==
  /\ getTask(t) = "walker and accumulator"
  /\ pc[t] = "measure"
  /\ pc' = [pc EXCEPT ![t] = "loop_next"]
  /\ UNCHANGED <<other_vars, parameters_, concurrency_, walk_finished_, measurements_done_,
                 accumulators_queue_, mutex_queue_, mutex_merge_,
                 queue_insertion_, config_dump_, accumulator_, meas_id,
                 acc_ptr, walker, accumulator_obj, mainpc, future_idx>>

\* accumulator_obj.measure() of the combined thread.
CombinedMeasure(t) ==
  /\ getTask(t) = "walker and accumulator"
  /\ pc[t] = "measure"
  /\ accumulator_obj' = [accumulator_obj EXCEPT ![t] = measure(@)]
  /\ pc' = [pc EXCEPT ![t] = "loop_next"]
  /\ UNCHANGED <<other_vars, parameters_, concurrency_, walk_finished_, measurements_done_,
                 accumulators_queue_, mutex_queue_, mutex_merge_,
                 queue_insertion_, config_dump_, accumulator_, meas_id,
                 acc_ptr, walker, mainpc, future_idx>>

\* ++walk_finished_ of the combined thread: no drain follows.
CombinedFinish(t) ==
  /\ getTask(t) = "walker and accumulator"
  /\ pc[t] = "loop_exit"
  /\ walk_finished_' = walk_finished_ + 1
  /\ pc' = [pc EXCEPT ![t] = "merge_lock"]
  /\ UNCHANGED <<other_vars, parameters_, concurrency_, measurements_done_,
                 accumulators_queue_, mutex_queue_, mutex_merge_,
                 queue_insertion_, config_dump_, accumulator_, meas_id,
                 acc_ptr, walker, accumulator_obj, mainpc, future_idx>>

-----------------------------------------------------------------------------
Next ==
  \/ Initialize
  \/ IntegrateSpawn
  \/ IntegrateJoin
  \/ IntegrateReturn
  \/ \E t \in Threads : WalkerStart(t)
  \/ \E t \in Threads : LoopEnter(t)
  \/ \E t \in Threads : LoopNext(t)
  \/ \E t \in Threads : DoSweep(t)
  \/ \E t \in Threads : WalkerWaitQueue(t)
  \/ \E t \in Threads : WalkerUpdate(t)
  \/ \E t \in Threads : WalkerFinish(t)
  \/ \E t \in Threads : WalkerDrainLock(t)
  \/ \E t \in Threads : WalkerDrain(t)
  \/ \E t \in Threads : DumpConfig(t)
  \/ \E t \in Threads : AccumulatorStart(t)
  \/ \E t \in Threads : AccumulatorLockQueue(t)
  \/ \E t \in Threads : AccumulatorPush(t)
  \/ \E t \in Threads : AccumulatorNotify(t)
  \/ \E t \in Threads : AccumulatorWait(t)
  \/ \E t \in Threads : AccumulatorMeasure(t)
  \/ \E t \in Threads : MergeLock(t)
  \/ \E t \in Threads : SumTo(t)
  \/ \E t \in Threads : CombinedStart(t)
  \/ \E t \in Threads : CombinedUpdate(t)
  \/ \E t \in Threads : CombinedMeasure(t)
  \/ \E t \in Threads : CombinedFinish(t)

Spec == Init /\ [][Next]_vars

\* Scheduling of the pool: as long as some thread can take a step, one does.
FairSpec == Spec /\ WF_vars(Next)

-----------------------------------------------------------------------------
\* A collaborator call of a worker throws: doSweep, updateFrom, measure or
\* sumTo (whose lock_guard releases the merge lock while unwinding). The
\* packaged task stores the exception in the future of the thread.
WorkerThrows(t) ==
  /\ pc[t] \in {"sweep", "update", "measure", "sum_to"}
  /\ pc' = [pc EXCEPT ![t] = "thrown"]
  /\ mutex_merge_' = IF mutex_merge_ = t THEN NoThread ELSE mutex_merge_
  /\ UNCHANGED <<other_vars, parameters_, concurrency_, walk_finished_, measurements_done_,
                 accumulators_queue_, mutex_queue_, queue_insertion_,
                 config_dump_, accumulator_, meas_id, acc_ptr, walker,
                 accumulator_obj, mainpc, future_idx>>

\* future.get() of a task that threw: integrate() rethrows to its caller.
IntegrateRethrow ==
  /\ mainpc = "joining"
  /\ future_idx < Len(thread_task_handler_)
  /\ pc[future_idx] = "thrown"
  /\ mainpc' = "rethrown"
  /\ UNCHANGED <<other_vars, parameters_, concurrency_, walk_finished_, measurements_done_,
                 accumulators_queue_, mutex_queue_, mutex_merge_,
                 queue_insertion_, config_dump_, accumulator_, pc, meas_id,
                 acc_ptr, walker, accumulator_obj, future_idx>>

NextThrow ==
  \/ Next
  \/ IntegrateRethrow
  \/ \E t \in Threads : WorkerThrows(t)

SpecThrow == Init /\ [][NextThrow]_vars

-----------------------------------------------------------------------------
\* Quantities the properties below are stated in.

RECURSIVE SumOver(_, _)
SumOver(g, S) ==
  IF S = {} THEN 0
  ELSE LET x == CHOOSE y \in S : TRUE IN g[x] + SumOver(g, S \ {x})

WalkerOwners == WalkerThreads \cup CombinedThreads
Accumulating == AccumulatorThreads \cup CombinedThreads

\* Executions of the measurement body begun by thread t.
iterations(t) == walker[t].sweeps - (IF walker[t].thermalized
                                       THEN parameters_.warm_up ELSE 0)

LeftLoop(t) ==
  pc[t] \in {"loop_exit", "drain_lock", "drain", "merge_lock", "sum_to",
             "dump", "finished"}

TotalIterations == SumOver([t \in Threads |-> iterations(t)], WalkerOwners)
TotalUpdates ==
  SumOver([t \in Threads |-> accumulator_obj[t].updates], Accumulating)
TotalMeasures ==
  SumOver([t \in Threads |-> accumulator_obj[t].measures], Accumulating)

Holders(a) == {w \in Threads : acc_ptr[w] = a}
OnStack(a) == {i \in 1..Len(accumulators_queue_) : accumulators_queue_[i] = a}

-----------------------------------------------------------------------------
C2_SharedCounterTotal ==
  (~parameters_.fix_meas /\ mainpc = "integrated") =>
    /\ TotalIterations = total_meas
    /\ accumulator_.samples = total_meas
    /\ measurements_done_ = total_meas

C4_DrainOnlyAtEnd ==
  \A t \in Threads :
    pc[t] \in {"drain_lock", "drain"} =>
      /\ walk_finished_ = parameters_.walkers
      /\ \A w \in WalkerThreads : LeftLoop(w) /\ pc[w] # "loop_exit"

C4_NoWalkerBlocksForever ==
  /\ [](~parameters_.shared => C4_DrainOnlyAtEnd)
  /\ <>[](parameters_.shared \/
            \A t \in WalkerThreads : pc[t] \in {"dump", "finished"})

C4_Witness ==
  /\ ~parameters_.shared
  /\ \E t, u \in WalkerThreads :
       /\ t # u
       /\ pc[t] = "waiting"
       /\ pc[u] = "waiting"
       /\ accumulators_queue_ = <<>>

\* C5: in non-shared mode integrate() terminates: every thread finishes, no
\* accumulator stays blocked after the last walker, and integrate() returns
\* with walk_finished_ = W.
C5_Returned ==
  mainpc = "integrated" =>
    /\ walk_finished_ = parameters_.walkers
    /\ \A t \in Threads : pc[t] = "finished"

C5_IntegrateTerminates ==
  /\ [](~parameters_.shared => C5_Returned)
  /\ <>[](parameters_.shared \/ mainpc = "integrated")

C5_Witness ==
  /\ ~parameters_.shared
  /\ mainpc = "integrated"
  /\ parameters_.accumulators = 2
  /\ \E a \in AccumulatorThreads : accumulator_obj[a].done
  /\ \E a \in AccumulatorThreads : ~accumulator_obj[a].done

\* C6: with the shared flag and W # A the run still completes: no thread of
\* the task table is left waiting forever, so the system stops only once
\* integrate() has returned.
C6_SharedUnequalCompletes ==
  (parameters_.shared /\ parameters_.walkers # parameters_.accumulators) =>
    (mainpc = "integrated" \/ ENABLED Next)

\* C7: when a thread calls sumTo every sample handed to its accumulator has
\* been measured and none can still arrive, and the global accumulator is
\* finalized only after every accumulating thread completed its sumTo, so it
\* then contains every sample produced in the run.
C7_NoInFlightWorkLost ==
  /\ \A t \in Accumulating :
       LET o == accumulator_obj[t] IN
         (pc[t] = "sum_to" \/ o.summed > 0) =>
           /\ ~o.measuring
           /\ o.lost = 0
           /\ o.updates = o.measures
           /\ Holders(t) = {}
           /\ OnStack(t) = {}
  /\ accumulator_.finalized > 0 =>
       /\ \A t \in Accumulating :
            accumulator_obj[t].summed = 1 /\ pc[t] \in {"dump", "finished"}
       /\ accumulator_.samples = TotalUpdates
       /\ accumulator_.samples = TotalIterations

C7_Witness ==
  /\ accumulator_.finalized = 1
  /\ accumulator_.samples = 2
  /\ ~parameters_.shared
  /\ \A a \in AccumulatorThreads : accumulator_obj[a].measures = 1
  /\ Cardinality(AccumulatorThreads) = 2

\* C8: merging is serialized: at most one thread at a time executes sumTo,
\* and it owns mutex_merge_; every accumulator thread and every combined
\* thread merges exactly once in one integrate().
C8_MergeSerialized ==
  /\ Cardinality({t \in Threads : pc[t] = "sum_to"}) <= 1
  /\ \A t \in Threads : pc[t] = "sum_to" => mutex_merge_ = t
  /\ \A t \in Accumulating :
       /\ accumulator_obj[t].summed <= 1
       /\ pc[t] \in {"dump", "finished"} => accumulator_obj[t].summed = 1
  /\ \A t \in Threads \ Accumulating : accumulator_obj[t].summed = 0
  /\ mainpc = "integrated" => accumulator_.sums = Cardinality(Accumulating)

C8_Witness ==
  \E t, u \in Accumulating :
    /\ getTask(t) = "accumulator"
    /\ getTask(u) = "walker and accumulator"
    /\ pc[t] = "sum_to"
    /\ pc[u] = "merge_lock"

\* C9: shared dispatch with W = A: every thread is a combined thread, the
\* idle stack, its mutex and its condition variable are never used, every
\* combined thread does sweep, updateFrom, measure in that order once per
\* local measurement, and the run returns with walk_finished_ = W.
C9_CombinedInline(t) ==
  LET o == accumulator_obj[t]
      n == iterations(t)
  IN  /\ getTask(t) = "walker and accumulator"
      /\ pc[t] \notin {"wait_queue", "waiting", "drain_lock", "drain",
                       "lock_queue", "push", "notify", "wait_walker"}
      /\ acc_ptr[t] = NoThread
      /\ o.lost = 0
      /\ ~o.done
      /\ pc[t] = "update" => (n = o.updates + 1 /\ o.updates = o.measures)
      /\ pc[t] = "measure" => (n = o.updates /\ o.updates = o.measures + 1)
      /\ pc[t] \notin {"update", "measure"} =>
           (n = o.updates /\ o.updates = o.measures)
      /\ o.measuring <=> pc[t] = "measure"

C9_SharedEqual ==
  (parameters_.shared /\ parameters_.walkers = parameters_.accumulators) =>
    /\ Len(thread_task_handler_) = parameters_.walkers
    /\ \A t \in Threads : C9_CombinedInline(t)
    /\ accumulators_queue_ = <<>>
    /\ mutex_queue_ = NoThread
    /\ queue_insertion_ = {}
    /\ mainpc # "assert_failed"
    /\ mainpc = "integrated" => walk_finished_ = parameters_.walkers
    /\ (mainpc = "integrated" \/ ENABLED Next)

C9_Witness ==
  /\ parameters_.shared
  /\ parameters_.walkers = 2
  /\ parameters_.accumulators = 2
  /\ mainpc = "integrated"
  /\ walk_finished_ = 2
  /\ \E t \in Threads : accumulator_obj[t].measures = 2

\* C10: an exception thrown by a worker surfaces: once a thread has thrown,
\* the system stops only after integrate() has rethrown to its caller.
C10_WorkerExceptionSurfaces ==
  (\E t \in Threads : pc[t] = "thrown") =>
    (mainpc = "rethrown" \/ ENABLED NextThrow)

-----------------------------------------------------------------------------
(***************************************************************************)
(* The coordinator from construction to finalize, over the DCA iterations  *)
(* of a run and over successive runs that share the disk.                  *)
(***************************************************************************)

\* Runs (coordinators constructed one after the other) and DCA iterations.
MaxRuns == 2
MaxIterations == 2

\* Configured directories; "" is "not configured".
Directories == {"", "d1", "d2"}

\* Contents of a walker's dumped configuration; 0 is the empty buffer.
Buffers == {1, 2}

\* An archive is the sequence of its keys configuration_0, configuration_1,
\* ...; NoFile is the absent archive.
NoFile == <<0 - 1>>

\* Where an I/O call throws: OpenFails for open_file, k for the execute of
\* key k; the number of keys when nothing throws.
OpenFails == 0 - 1

ProcessIds == {p.id : p \in Processes}

\* Walker and accumulator counts handed to the constructor.
WalkerCounts == {0 - 1, 0, 1, 2}
AccumulatorCounts == {0 - 1, 0, 1}

LifecycleConfigurations ==
  [walkers : WalkerCounts, accumulators : AccumulatorCounts,
   shared : BOOLEAN, fix_meas : {TRUE}, measurements : {0}, warm_up : {0},
   directory_config_read : Directories, directory_config_write : Directories,
   dca_iterations : 1..MaxIterations]

LifecycleInit ==
  /\ parameters_ \in LifecycleConfigurations
  /\ concurrency_ \in Processes
  /\ walk_finished_ = 0
  /\ measurements_done_ = 0
  /\ accumulators_queue_ = <<>>
  /\ mutex_queue_ = NoThread
  /\ mutex_merge_ = NoThread
  /\ queue_insertion_ = {}
  /\ config_dump_ = <<>>
  /\ accumulator_ = NewGlobalAccumulator
  /\ pc = <<>>
  /\ meas_id = <<>>
  /\ acc_ptr = <<>>
  /\ walker = <<>>
  /\ accumulator_obj = <<>>
  /\ mainpc = "start"
  /\ future_idx = 0
  /\ hdf5_files = [n \in Directories \X ProcessIds |-> NoFile]
  /\ dca_iteration_ = 0
  /\ calls = <<>>
  /\ pool_size = 0
  /\ handle_size = 0
  /\ run = 0
  /\ NoView
  /\ NoFunction

\* io::HDF5Writer: open_file(out_name) creates or truncates the archive, then
\* execute writes the keys in order until one throws.
HDF5Write(out_name, buffers, n, fail) ==
  [files |-> IF fail = OpenFails THEN hdf5_files
             ELSE [hdf5_files EXCEPT
                     ![out_name] = [k \in 1..Min(fail, n) |-> buffers[k - 1]]],
   threw |-> fail < n,
   io    |-> <<<<"open_file", 0>>>> \o
             [k \in 1..Min(fail + 1, n) |-> <<"execute", k - 1>>]]

\* Variant: the guard tests the write directory.
readConfigurations_GuardOnWrite(fail) ==
  IF parameters_.directory_config_write = ""
    THEN [config_dump_ |-> [w \in 0..(parameters_.walkers - 1) |-> 0],
          files |-> hdf5_files, io |-> <<>>]
  ELSE
    LET w == HDF5Write(<<parameters_.directory_config_write, concurrency_.id>>,
                       [i \in 0..(parameters_.walkers - 1) |-> 0],
                       parameters_.walkers, fail)
    IN  [config_dump_ |-> [i \in 0..(parameters_.walkers - 1) |-> 0],
         files |-> w.files,
         io |-> IF w.threw THEN w.io \o <<<<"catch", 0>>>> ELSE w.io]

\* readConfigurations() on the freshly constructed, empty, config_dump_: the
\* name is built from the write directory and the slots are handed to a
\* writer; the handler of a failure clears every slot.
readConfigurations(fail) ==
  LET fresh == [i \in 0..(parameters_.walkers - 1) |-> 0]
  IN  IF parameters_.directory_config_read = ""
        THEN [config_dump_ |-> fresh, files |-> hdf5_files, io |-> <<>>]
      ELSE
        LET w == HDF5Write(<<parameters_.directory_config_write,
                             concurrency_.id>>,
                           fresh, parameters_.walkers, fail)
        IN  IF w.threw
              THEN [config_dump_ |-> [i \in DOMAIN fresh |-> 0],
                    files |-> w.files, io |-> w.io \o <<<<"catch", 0>>>>]
              ELSE [config_dump_ |-> fresh, files |-> w.files, io |-> w.io]

\* writeConfigurations() const.
writeConfigurations(fail) ==
  IF parameters_.directory_config_write = ""
    THEN [files |-> hdf5_files, io |-> <<>>]
  ELSE
    LET w == HDF5Write(<<parameters_.directory_config_write, concurrency_.id>>,
                       config_dump_, parameters_.walkers, fail)
    IN  [files |-> w.files,
         io |-> IF w.threw THEN w.io \o <<<<"catch", 0>>>> ELSE w.io]

Max(a, b) == IF a > b THEN a ELSE b

\* The part of the constructor after the check of the two counts.
ConstructBody(fail) ==
  LET r == readConfigurations(fail)
      n == Len(thread_task_handler_)
  IN  /\ config_dump_' = r.config_dump_
      /\ hdf5_files' = r.files
      /\ handle_size' = Max(handle_size, n)
      /\ pool_size' = Max(pool_size, n)
      /\ calls' = r.io \o <<<<"resizeHandleContainer", n>>, <<"enlarge", n>>>>

\* Variant: the two counts are checked at the end of the constructor.
Construct_CheckLast ==
  /\ mainpc = "start"
  /\ run' = run + 1
  /\ IF parameters_.walkers < 0 \/ parameters_.accumulators < 0
       THEN /\ mainpc' = "ctor_threw"
            /\ calls' = <<<<"std::length_error", 0>>>>
            /\ UNCHANGED <<config_dump_, hdf5_files, handle_size, pool_size>>
       ELSE /\ \E fail \in OpenFails..parameters_.walkers :
                 LET r == readConfigurations(fail)
                     n == Len(thread_task_handler_)
                 IN  /\ config_dump_' = r.config_dump_
                     /\ hdf5_files' = r.files
                     /\ handle_size' = Max(handle_size, n)
                     /\ pool_size' = Max(pool_size, n)
                     /\ calls' =
                          IF parameters_.walkers < 1 \/
                             parameters_.accumulators < 1
                            THEN r.io \o <<<<"resizeHandleContainer", n>>,
                                           <<"enlarge", n>>,
                                           <<"std::logic_error", 0>>>>
                            ELSE r.io \o <<<<"resizeHandleContainer", n>>,
                                           <<"enlarge", n>>>>
            /\ mainpc' = IF parameters_.walkers < 1 \/
                            parameters_.accumulators < 1
                           THEN "ctor_threw" ELSE "constructed"
  /\ pc' = IF mainpc' = "constructed" THEN [t \in Threads |-> "idle"] ELSE pc
  /\ meas_id' = IF mainpc' = "constructed" THEN [t \in Threads |-> 0]
                ELSE meas_id
  /\ acc_ptr' = IF mainpc' = "constructed" THEN [t \in Threads |-> NoThread]
                ELSE acc_ptr
  /\ walker' = IF mainpc' = "constructed" THEN [t \in Threads |-> NewWalker]
               ELSE walker
  /\ accumulator_obj' = IF mainpc' = "constructed"
                          THEN [t \in Threads |-> NewAccumulator]
                          ELSE accumulator_obj
  /\ UNCHANGED <<parameters_, concurrency_, walk_finished_, measurements_done_,
                 accumulators_queue_, mutex_queue_, mutex_merge_,
                 queue_insertion_, accumulator_, future_idx, dca_iteration_,
                 view_vars, symmetrize_vars>>

\* StdThreadQmciClusterSolver(parameters_ref, data_ref). A negative count
\* makes the initializer of walker_fingerprints_ or accum_fingerprints_ throw
\* std::length_error, which is a std::logic_error; a count of zero reaches
\* the check in the body.
Construct ==
  /\ mainpc = "start"
  /\ run' = run + 1
  /\ IF parameters_.walkers < 0 \/ parameters_.accumulators < 0
       THEN /\ mainpc' = "ctor_threw"
            /\ calls' = <<<<"std::length_error", 0>>>>
            /\ UNCHANGED <<config_dump_, hdf5_files, handle_size, pool_size>>
     ELSE IF parameters_.walkers < 1 \/ parameters_.accumulators < 1
       THEN /\ mainpc' = "ctor_threw"
            /\ calls' = <<<<"std::logic_error", 0>>>>
            /\ UNCHANGED <<config_dump_, hdf5_files, handle_size, pool_size>>
     ELSE /\ mainpc' = "constructed"
          /\ \E fail \in OpenFails..parameters_.walkers : ConstructBody(fail)
  /\ pc' = IF mainpc' = "constructed" THEN [t \in Threads |-> "idle"] ELSE pc
  /\ meas_id' = IF mainpc' = "constructed" THEN [t \in Threads |-> 0]
                ELSE meas_id
  /\ acc_ptr' = IF mainpc' = "constructed" THEN [t \in Threads |-> NoThread]
                ELSE acc_ptr
  /\ walker' = IF mainpc' = "constructed" THEN [t \in Threads |-> NewWalker]
               ELSE walker
  /\ accumulator_obj' = IF mainpc' = "constructed"
                          THEN [t \in Threads |-> NewAccumulator]
                          ELSE accumulator_obj
  /\ UNCHANGED <<parameters_, concurrency_, walk_finished_, measurements_done_,
                 accumulators_queue_, mutex_queue_, mutex_merge_,
                 queue_insertion_, accumulator_, future_idx, dca_iteration_,
                 view_vars, symmetrize_vars>>

\* initialize(dca_iteration) as the DCA loop calls it: iteration 0 after the
\* construction, the next iteration after a finalize.
InitializeIteration ==
  /\ \/ mainpc = "constructed" /\ dca_iteration_' = 0
     \/ /\ mainpc = "finalized"
        /\ dca_iteration_ + 1 < parameters_.dca_iterations
        /\ dca_iteration_' = dca_iteration_ + 1
  /\ walk_finished_' = 0
  /\ measurements_done_' = 0
  /\ mainpc' = "initialized"
  /\ calls' = <<<<"BaseClass::initialize", dca_iteration_'>>>>
  /\ UNCHANGED <<parameters_, concurrency_, accumulators_queue_, mutex_queue_,
                 mutex_merge_, queue_insertion_, config_dump_, accumulator_,
                 pc, meas_id, acc_ptr, walker, accumulator_obj, future_idx,
                 hdf5_files, pool_size, handle_size, run,
                 view_vars, symmetrize_vars>>

\* integrate() from the call to the return: every walker has left its loop
\* and dumped its configuration into its slot.
IntegrateAll ==
  /\ mainpc = "initialized"
  /\ walk_finished_' = parameters_.walkers
  /\ config_dump_' \in [0..(parameters_.walkers - 1) -> Buffers]
  /\ mainpc' = "integrated"
  /\ calls' = <<<<"accumulator_.finalize", 0>>>>
  /\ UNCHANGED <<parameters_, concurrency_, measurements_done_,
                 accumulators_queue_, mutex_queue_, mutex_merge_,
                 queue_insertion_, accumulator_, pc, meas_id, acc_ptr, walker,
                 accumulator_obj, future_idx, hdf5_files, dca_iteration_,
                 pool_size, handle_size, run, view_vars, symmetrize_vars>>

\* Convergence metrics the embedded solver may report.
Metrics == {0, 1}

\* Variant: the snapshots are written before the embedded solver finalizes,
\* on every iteration.
Finalize_WriteFirst ==
  /\ mainpc = "integrated"
  /\ \E L2_Sigma_difference \in Metrics :
       \E fail \in OpenFails..parameters_.walkers :
         LET w == writeConfigurations(fail)
         IN  /\ calls' = w.io \o
                  (IF dca_iteration_ = parameters_.dca_iterations - 1
                     THEN <<<<"computeErrorBars", 0>>>> ELSE <<>>) \o
                  <<<<"QmciSolver::finalize", L2_Sigma_difference>>,
                    <<"return", L2_Sigma_difference>>>>
             /\ hdf5_files' = w.files
  /\ mainpc' = "finalized"
  /\ UNCHANGED <<parameters_, concurrency_, walk_finished_, measurements_done_,
                 accumulators_queue_, mutex_queue_, mutex_merge_,
                 queue_insertion_, config_dump_, accumulator_, pc, meas_id,
                 acc_ptr, walker, accumulator_obj, future_idx, dca_iteration_,
                 pool_size, handle_size, run, view_vars, symmetrize_vars>>

\* finalize(dca_info_struct).
Finalize ==
  /\ mainpc = "integrated"
  /\ \E L2_Sigma_difference \in Metrics :
       IF dca_iteration_ = parameters_.dca_iterations - 1
         THEN \E fail \in OpenFails..parameters_.walkers :
                LET w == writeConfigurations(fail)
                IN  /\ calls' = <<<<"computeErrorBars", 0>>,
                                  <<"QmciSolver::finalize",
                                    L2_Sigma_difference>>>> \o w.io \o
                                <<<<"return", L2_Sigma_difference>>>>
                    /\ hdf5_files' = w.files
         ELSE /\ calls' = <<<<"QmciSolver::finalize", L2_Sigma_difference>>,
                            <<"return", L2_Sigma_difference>>>>
              /\ hdf5_files' = hdf5_files
  /\ mainpc' = "finalized"
  /\ UNCHANGED <<parameters_, concurrency_, walk_finished_, measurements_done_,
                 accumulators_queue_, mutex_queue_, mutex_merge_,
                 queue_insertion_, config_dump_, accumulator_, pc, meas_id,
                 acc_ptr, walker, accumulator_obj, future_idx, dca_iteration_,
                 pool_size, handle_size, run, view_vars, symmetrize_vars>>

\* The process ends after its last iteration or after the fatal error; the
\* disk keeps its archives.
ProcessExit ==
  /\ \/ mainpc = "ctor_threw"
     \/ mainpc = "finalized" /\ dca_iteration_ = parameters_.dca_iterations - 1
  /\ mainpc' = "exited"
  /\ parameters_' = <<>>
  /\ config_dump_' = <<>>
  /\ walk_finished_' = 0
  /\ dca_iteration_' = 0
  /\ calls' = <<>>
  /\ pool_size' = 0
  /\ handle_size' = 0
  /\ pc' = <<>>
  /\ meas_id' = <<>>
  /\ acc_ptr' = <<>>
  /\ walker' = <<>>
  /\ accumulator_obj' = <<>>
  /\ UNCHANGED <<concurrency_, measurements_done_, accumulators_queue_,
                 mutex_queue_, mutex_merge_, queue_insertion_, accumulator_,
                 future_idx, hdf5_files, run, view_vars, symmetrize_vars>>

\* A later process is started on the same disk with its own parameters.
ProcessStart ==
  /\ mainpc = "exited"
  /\ run < MaxRuns
  /\ parameters_' \in LifecycleConfigurations
  /\ mainpc' = "start"
  /\ UNCHANGED <<concurrency_, walk_finished_, measurements_done_,
                 accumulators_queue_, mutex_queue_, mutex_merge_,
                 queue_insertion_, config_dump_, accumulator_, pc, meas_id,
                 acc_ptr, walker, accumulator_obj, future_idx,
                 lifecycle_vars, view_vars, symmetrize_vars>>

LifecycleNext ==
  \/ Construct
  \/ InitializeIteration
  \/ IntegrateAll
  \/ Finalize
  \/ ProcessExit
  \/ ProcessStart

SpecLifecycle == LifecycleInit /\ [][LifecycleNext]_vars

-----------------------------------------------------------------------------
\* Positions in calls of the calls of one function.
CallsOf(name) == {k \in 1..Len(calls) : calls[k][1] = name}

AllSlotsEmpty ==
  /\ DOMAIN config_dump_ = 0..(parameters_.walkers - 1)
  /\ \A i \in DOMAIN config_dump_ : config_dump_[i] = 0

\* C11: constructing the coordinator with fewer than one walker or fewer
\* than one accumulator ends in a logic error, and then nothing was read
\* from disk and neither the thread pool nor the handle container was
\* enlarged; with at least one of each the construction succeeds.
C11_InvalidCountsAreFatal ==
  mainpc \in {"ctor_threw", "constructed"} =>
    IF parameters_.walkers < 1 \/ parameters_.accumulators < 1
      THEN /\ mainpc = "ctor_threw"
           /\ Len(calls) = 1
           /\ calls[1][1] \in {"std::logic_error", "std::length_error"}
           /\ CallsOf("open_file") = {}
           /\ CallsOf("enlarge") = {}
           /\ CallsOf("resizeHandleContainer") = {}
           /\ pool_size = 0
           /\ handle_size = 0
           /\ config_dump_ = <<>>
      ELSE mainpc = "constructed"

C11_Witness ==
  /\ mainpc = "ctor_threw"
  /\ parameters_.walkers = 0
  /\ parameters_.accumulators = 1
  /\ parameters_.directory_config_read # ""
  /\ hdf5_files[<<parameters_.directory_config_read, concurrency_.id>>]
       # NoFile

\* C12: when the archive of this process in the read directory holds one key
\* per walker and the construction meets no I/O failure, then after the
\* constructor slot i holds the bytes stored under configuration_<i> and the
\* archives on disk are as they were.
C12_SnapshotRoundTrip ==
  [][(/\ mainpc = "start"
      /\ mainpc' = "constructed"
      /\ parameters_.directory_config_read # ""
      /\ hdf5_files[<<parameters_.directory_config_read, concurrency_.id>>]
           # NoFile
      /\ Len(hdf5_files[<<parameters_.directory_config_read,
                          concurrency_.id>>]) = parameters_.walkers
      /\ \A k \in 1..Len(calls') : calls'[k][1] # "catch")
     => /\ \A i \in 0..(parameters_.walkers - 1) :
             config_dump_'[i] =
               hdf5_files[<<parameters_.directory_config_read,
                            concurrency_.id>>][i + 1]
        /\ hdf5_files' = hdf5_files]_vars

\* C13: a failure of the snapshot I/O is absorbed. After a constructor whose
\* read failed, at the open or at any key, every slot is empty, the
\* coordinator is constructed and its first iteration can start; with an
\* empty read directory the constructor does no I/O and leaves every slot
\* empty; no construction fails because of I/O; and finalize, whether or not
\* its write fails, leaves the slots as they were.
C13_SnapshotFailureRecoverable ==
  /\ [](mainpc = "constructed" =>
          /\ (CallsOf("catch") # {} =>
                AllSlotsEmpty /\ ENABLED InitializeIteration)
          /\ (parameters_.directory_config_read = "" =>
                /\ CallsOf("open_file") = {}
                /\ CallsOf("execute") = {}
                /\ AllSlotsEmpty))
  /\ [](mainpc = "ctor_threw" => CallsOf("catch") = {})
  /\ [][(mainpc = "integrated" /\ mainpc' = "finalized")
          => config_dump_' = config_dump_]_vars

C13_Witness ==
  /\ mainpc = "constructed"
  /\ parameters_.walkers = 2
  /\ CallsOf("execute") # {}
  /\ CallsOf("catch") # {}
  /\ AllSlotsEmpty

\* C14: in finalize the error bars are computed and the snapshots are written
\* only on the last DCA iteration, the snapshots only with a write directory
\* configured; the embedded solver's finalize is called exactly once, after
\* the error bars and before any snapshot I/O, and finalize returns its value.
C14_FinalizeOrder ==
  mainpc = "finalized" =>
    LET last_iteration == dca_iteration_ = parameters_.dca_iterations - 1
        fin == CallsOf("QmciSolver::finalize")
        err == CallsOf("computeErrorBars")
        io  == CallsOf("open_file") \cup CallsOf("execute")
    IN  /\ Cardinality(fin) = 1
        /\ err # {} => last_iteration
        /\ io # {} => (last_iteration /\
                       parameters_.directory_config_write # "")
        /\ \A k \in fin :
             /\ \A e \in err : e < k
             /\ \A w \in io : k < w
             /\ calls[Len(calls)] = <<"return", calls[k][2]>>

C14_Witness ==
  /\ mainpc = "finalized"
  /\ dca_iteration_ = 1
  /\ parameters_.dca_iterations = 2
  /\ CallsOf("computeErrorBars") # {}
  /\ CallsOf("execute") # {}
  /\ calls[Len(calls)] = <<"return", 1>>

-----------------------------------------------------------------------------
(***************************************************************************)
(* linalg::MatrixView in a debug build: a view of one Matrix is derived,   *)
(* then one operation is applied to it.                                    *)
(***************************************************************************)

\* Largest shape of the matrix.
MaxRows == 3
MaxCols == 4

\* Rows of padding between the rows of the matrix and its leading dimension.
Paddings == {0, 1}

\* Outcome of a failed assertion (the process aborts); addresses are positive.
Aborted == 0 - 1

\* dca::linalg::Matrix: column-major storage, element (i, j) at
\* ptr + i + j * ld.
Matrix(rows, cols, pad) ==
  [ptr |-> 16, ld |-> rows + pad, rows |-> rows, cols |-> cols]

Matrices ==
  {Matrix(r, c, p) : r \in 1..MaxRows, c \in 1..MaxCols, p \in Paddings}

Cells(m) == m.ptr..(m.ptr + m.ld * m.cols - 1)

MatrixPtr(m, i, j) == m.ptr + i + j * m.ld

\* Contents of a cell before anything is written: its own address, so that
\* any two cells differ. The value written by the operations is 7.
InitialValue(a) == 100 + a

\* The constructors from a matrix; the result is <<view>>, or <<>> when an
\* assertion fails.
MatrixView_mat(m) ==
  <<[ptr_ |-> m.ptr, ldm_ |-> m.ld, size_ |-> <<m.rows, m.cols>>]>>

\* Variant: the leading dimension is taken from the shape of the view.
MatrixView_block_PackedLd(m, offset_i, offset_j, ni, nj) ==
  IF ni + offset_i <= m.rows /\ nj + offset_j <= m.cols
    THEN <<[ptr_ |-> MatrixPtr(m, offset_i, offset_j), ldm_ |-> ni,
            size_ |-> <<ni, nj>>]>>
    ELSE <<>>

MatrixView_block(m, offset_i, offset_j, ni, nj) ==
  IF ni + offset_i <= m.rows /\ nj + offset_j <= m.cols
    THEN <<[ptr_ |-> MatrixPtr(m, offset_i, offset_j), ldm_ |-> m.ld,
            size_ |-> <<ni, nj>>]>>
    ELSE <<>>

\* The delegating constructor: its own assertions compare offset_i with the
\* number of columns and offset_j with the number of rows.
MatrixView_offset(m, offset_i, offset_j) ==
  LET v == MatrixView_block(m, offset_i, offset_j, m.rows - offset_i,
                            m.cols - offset_j)
  IN  IF Len(v) = 1 /\ offset_i < m.cols /\ offset_j < m.rows THEN v ELSE <<>>

makeViewFromConst_mat(m) == MatrixView_mat(m)
makeViewFromConst_offset(m, off_i, off_j) == MatrixView_offset(m, off_i, off_j)
makeViewFromConst_block(m, off_i, off_j, n_i, n_j) ==
  MatrixView_block(m, off_i, off_j, n_i, n_j)

\* Variant of operator(): row-major addressing.
at_RowMajor(v, i, j) ==
  IF 0 <= i /\ i < v.size_[1] /\ 0 <= j /\ j < v.size_[2]
    THEN v.ptr_ + i * v.ldm_ + j
    ELSE Aborted

\* Variant of operator(): the upper bounds are inclusive.
at_Inclusive(v, i, j) ==
  IF 0 <= i /\ i <= v.size_[1] /\ 0 <= j /\ j <= v.size_[2]
    THEN v.ptr_ + i + j * v.ldm_
    ELSE Aborted

\* operator()(i, j): the address of the element, or the failed assertion.
at(v, i, j) ==
  IF 0 <= i /\ i < v.size_[1] /\ 0 <= j /\ j < v.size_[2]
    THEN v.ptr_ + i + j * v.ldm_
    ELSE Aborted

\* Variant of ptr(i, j): the bounds of operator().
ptr_Strict(v, i, j) ==
  IF 0 <= i /\ i < v.size_[1] /\ 0 <= j /\ j < v.size_[2]
    THEN v.ptr_ + v.ldm_ * j + i
    ELSE Aborted

\* ptr(i, j).
ptr(v, i, j) ==
  IF 0 <= i /\ i <= v.size_[1] /\ 0 <= j /\ j <= v.size_[2]
    THEN v.ptr_ + v.ldm_ * j + i
    ELSE Aborted

nrRows(v) == v.size_[1]
nrCols(v) == v.size_[2]

\* The loops of operator=: the columns in order and the rows of each column
\* in order, each element read from the cells as they are at that moment.
\* k counts the elements still to be copied.
RECURSIVE copyElements(_, _, _, _, _)
copyElements(lhs, rhs, cells, rows, k) ==
  IF k = 0 THEN cells
  ELSE LET done == copyElements(lhs, rhs, cells, rows, k - 1)
           i == (k - 1) % rows
           j == (k - 1) \div rows
       IN  [done EXCEPT ![at(lhs, i, j)] = done[at(rhs, i, j)]]

\* Variant of operator=: the last row of the block is not copied.
assign_SkipLastRow(lhs, rhs, cells) ==
  IF ~(nrCols(lhs) = nrCols(rhs) /\ nrRows(lhs) = nrRows(rhs))
    THEN [out |-> Aborted, cells |-> cells]
  ELSE IF nrRows(lhs) <= 1 \/ nrCols(lhs) <= 0
    THEN [out |-> 0, cells |-> cells]
  ELSE [out |-> 0,
        cells |-> copyElements(lhs, rhs, cells, nrRows(lhs) - 1,
                               (nrRows(lhs) - 1) * nrCols(lhs))]

\* operator=(rhs), for a Matrix and for a MatrixView.
assign(lhs, rhs, cells) ==
  IF ~(nrCols(lhs) = nrCols(rhs) /\ nrRows(lhs) = nrRows(rhs))
    THEN [out |-> Aborted, cells |-> cells]
  ELSE IF nrRows(lhs) <= 0 \/ nrCols(lhs) <= 0
    THEN [out |-> 0, cells |-> cells]
  ELSE [out |-> 0,
        cells |-> copyElements(lhs, rhs, cells, nrRows(lhs),
                               nrRows(lhs) * nrCols(lhs))]

\* One entry of ops: the operation, its arguments, its outcome (Aborted, 0
\* or the address it returned), the cells before it and the right-hand side
\* of an assignment.
Op(name, args, out, src) ==
  [op |-> name, args |-> args, out |-> out, before |-> storage, src |-> src]

ViewInit ==
  /\ mat \in Matrices
  /\ storage = [a \in Cells(mat) |-> InitialValue(a)]
  /\ view = <<>>
  /\ ops = <<>>
  /\ NoSolver
  /\ NoLifecycle
  /\ NoFunction

\* A constructor returned v (<<>>: it aborted).
Constructed(name, args, v) ==
  /\ ops = <<>>
  /\ view' = v
  /\ ops' = <<Op(name, args, IF Len(v) = 1 THEN 0 ELSE Aborted, <<>>)>>
  /\ UNCHANGED <<storage, mat, solver_vars, lifecycle_vars, symmetrize_vars>>

ConstructFromMatrix ==
  \E m \in {mat} :
    Constructed("MatrixView(mat)", <<0, 0, m.rows, m.cols>>, MatrixView_mat(m))

ConstructFromOffset ==
  \E offset_i \in 0..mat.rows, offset_j \in 0..mat.cols :
    Constructed("MatrixView(mat, offset_i, offset_j)",
                <<offset_i, offset_j, mat.rows - offset_i,
                  mat.cols - offset_j>>,
                MatrixView_offset(mat, offset_i, offset_j))

ConstructFromBlock ==
  \E offset_i \in 0..mat.rows, offset_j \in 0..mat.cols,
     ni \in 0..mat.rows, nj \in 0..mat.cols :
    Constructed("MatrixView(mat, offset_i, offset_j, ni, nj)",
                <<offset_i, offset_j, ni, nj>>,
                MatrixView_block(mat, offset_i, offset_j, ni, nj))

MakeViewFromConst ==
  \E m \in {mat} :
    Constructed("makeViewFromConst(m)", <<0, 0, m.rows, m.cols>>,
                makeViewFromConst_mat(m))

MakeViewFromConstOffset ==
  \E off_i \in 0..mat.rows, off_j \in 0..mat.cols :
    Constructed("makeViewFromConst(m, off_i, off_j)",
                <<off_i, off_j, mat.rows - off_i, mat.cols - off_j>>,
                makeViewFromConst_offset(mat, off_i, off_j))

MakeViewFromConstBlock ==
  \E off_i \in 0..mat.rows, off_j \in 0..mat.cols,
     n_i \in 0..mat.rows, n_j \in 0..mat.cols :
    Constructed("makeViewFromConst(m, off_i, off_j, n_i, n_j)",
                <<off_i, off_j, n_i, n_j>>,
                makeViewFromConst_block(mat, off_i, off_j, n_i, n_j))

\* The view exists and nothing has been done with it yet.
Fresh == Len(view) = 1 /\ Len(ops) = 1

\* Indices tried on a view: from one below to one above its shape.
RowIndices == (0 - 1)..(Max(nrRows(view[1]), 0) + 1)
ColIndices == (0 - 1)..(Max(nrCols(view[1]), 0) + 1)

\* view(i, j) = 7.
ElementWrite ==
  /\ Fresh
  /\ \E i \in RowIndices, j \in ColIndices :
       LET a == at(view[1], i, j)
       IN  /\ storage' = IF a = Aborted THEN storage
                         ELSE [storage EXCEPT ![a] = 7]
           /\ ops' = Append(ops, Op("view(i, j) = 7", <<i, j>>, a, <<>>))
  /\ UNCHANGED <<mat, view, solver_vars, lifecycle_vars, symmetrize_vars>>

\* view(i, j) read through the const overload.
ElementRead ==
  /\ Fresh
  /\ \E i \in RowIndices, j \in ColIndices :
       ops' = Append(ops, Op("view(i, j)", <<i, j>>, at(view[1], i, j), <<>>))
  /\ UNCHANGED <<storage, mat, view, solver_vars, lifecycle_vars,
                 symmetrize_vars>>

\* mat(i, j) = 7 on the matrix the view was derived from.
ParentWrite ==
  /\ Fresh
  /\ \E i \in 0..(mat.rows - 1), j \in 0..(mat.cols - 1) :
       /\ storage' = [storage EXCEPT ![MatrixPtr(mat, i, j)] = 7]
       /\ ops' = Append(ops, Op("mat(i, j) = 7", <<i, j>>,
                                MatrixPtr(mat, i, j), <<>>))
  /\ UNCHANGED <<mat, view, solver_vars, lifecycle_vars, symmetrize_vars>>

\* view.ptr(i, j).
PtrAccess ==
  /\ Fresh
  /\ \E i \in RowIndices, j \in ColIndices :
       ops' = Append(ops, Op("ptr(i, j)", <<i, j>>, ptr(view[1], i, j), <<>>))
  /\ UNCHANGED <<storage, mat, view, solver_vars, lifecycle_vars,
                 symmetrize_vars>>

\* view = rhs for another view of the same matrix: the whole matrix or a
\* block of the shape of the view.
AssignView ==
  /\ Fresh
  /\ \E offset_i \in 0..mat.rows, offset_j \in 0..mat.cols,
        whole \in BOOLEAN :
       LET rhs == IF whole THEN MatrixView_mat(mat)
                  ELSE MatrixView_block(mat, offset_i, offset_j,
                                        nrRows(view[1]), nrCols(view[1]))
       IN  /\ Len(rhs) = 1
           /\ whole => (offset_i = 0 /\ offset_j = 0)
           /\ nrRows(rhs[1]) >= 0 /\ nrCols(rhs[1]) >= 0
           /\ LET r == assign(view[1], rhs[1], storage)
              IN  /\ storage' = r.cells
                  /\ ops' = Append(ops, Op("view = rhs_view", <<>>, r.out,
                                           rhs))
  /\ UNCHANGED <<mat, view, solver_vars, lifecycle_vars, symmetrize_vars>>

\* view = rhs for a second Matrix, allocated behind the first one, of the
\* shape of the view or one row taller.
AssignMatrix ==
  /\ Fresh
  /\ nrRows(view[1]) >= 0 /\ nrCols(view[1]) >= 0
  /\ \E extra \in {0, 1}, pad \in Paddings :
       LET m == [ptr |-> mat.ptr + mat.ld * mat.cols,
                 ld |-> nrRows(view[1]) + extra + pad,
                 rows |-> nrRows(view[1]) + extra, cols |-> nrCols(view[1])]
           rhs == MatrixView_mat(m)
           allocated == [a \in Cells(mat) \cup Cells(m) |->
                           IF a \in Cells(mat) THEN storage[a]
                           ELSE InitialValue(a)]
           r == assign(view[1], rhs[1], allocated)
       IN  /\ storage' = r.cells
           /\ ops' = Append(ops, [op |-> "view = rhs_matrix", args |-> <<>>,
                                  out |-> r.out, before |-> allocated,
                                  src |-> rhs])
  /\ UNCHANGED <<mat, view, solver_vars, lifecycle_vars, symmetrize_vars>>

\* print(out): both loops run over nrRows(); the elements are read through
\* operator() in the order of the loops, up to the first failed assertion.
\* k counts the elements the loops have reached.
RECURSIVE printElements(_, _)
printElements(v, k) ==
  IF k = 0 THEN [out |-> 0, reads |-> <<>>]
  ELSE LET done == printElements(v, k - 1)
           i == (k - 1) % nrRows(v)
           j == (k - 1) \div nrRows(v)
       IN  IF done.out = Aborted THEN done
           ELSE IF at(v, i, j) = Aborted THEN [done EXCEPT !.out = Aborted]
           ELSE [done EXCEPT !.reads = Append(@, <<i, j>>)]

print(v) ==
  IF nrRows(v) <= 0 THEN [out |-> 0, reads |-> <<>>]
  ELSE printElements(v, nrRows(v) * nrRows(v))

\* view.print(): the elements read are recorded as the arguments.
ViewPrint ==
  /\ Fresh
  /\ LET r == print(view[1])
     IN  ops' = Append(ops, Op("print", r.reads, r.out, <<>>))
  /\ UNCHANGED <<storage, mat, view, solver_vars, lifecycle_vars,
                 symmetrize_vars>>

ViewNext ==
  \/ ConstructFromMatrix
  \/ ConstructFromOffset
  \/ ConstructFromBlock
  \/ MakeViewFromConst
  \/ MakeViewFromConstOffset
  \/ MakeViewFromConstBlock
  \/ ElementWrite
  \/ ElementRead
  \/ ParentWrite
  \/ PtrAccess
  \/ AssignView
  \/ AssignMatrix
  \/ ViewPrint

SpecView == ViewInit /\ [][ViewNext]_vars

-----------------------------------------------------------------------------
\* The valid indices of a view and the cells they denote.
Indices(v) == (0..(nrRows(v) - 1)) \X (0..(nrCols(v) - 1))
Window(v) == {at(v, e[1], e[2]) : e \in Indices(v)}

ElementOps == {"view(i, j)", "view(i, j) = 7"}

\* C15: view(i, j) denotes the cell base[i + j*ld], which is the cell of
\* parent(i + oi, j + oj) for a view derived with offsets (oi, oj); a write
\* through the view is read back through the parent at the shifted index and
\* changes no other cell; a write through the parent is read back through the
\* view at the element that maps to it and at no other element.
C15_ViewAddressing ==
  (Len(view) = 1 /\ Len(ops) = 2) =>
    LET v  == view[1]
        oi == ops[1].args[1]
        oj == ops[1].args[2]
        o  == ops[2]
    IN  /\ (o.op \in ElementOps /\ o.out # Aborted) =>
             /\ o.out = v.ptr_ + o.args[1] + o.args[2] * v.ldm_
             /\ o.out = MatrixPtr(mat, o.args[1] + oi, o.args[2] + oj)
        /\ (o.op = "view(i, j) = 7" /\ o.out # Aborted) =>
             /\ storage[MatrixPtr(mat, o.args[1] + oi, o.args[2] + oj)] = 7
             /\ \A a \in DOMAIN storage :
                  a # MatrixPtr(mat, o.args[1] + oi, o.args[2] + oj)
                    => storage[a] = o.before[a]
        /\ o.op = "mat(i, j) = 7" =>
             \A e \in Indices(v) :
               storage[at(v, e[1], e[2])] =
                 IF <<e[1] + oi, e[2] + oj>> = o.args THEN 7
                 ELSE o.before[at(v, e[1], e[2])]

C15_Witness ==
  /\ Len(view) = 1
  /\ Len(ops) = 2
  /\ mat = Matrix(3, 4, 1)
  /\ ops[1].op = "MatrixView(mat, offset_i, offset_j, ni, nj)"
  /\ ops[1].args = <<1, 2, 2, 2>>
  /\ ops[2].op = "view(i, j) = 7"
  /\ ops[2].args = <<0, 0>>
  /\ storage[MatrixPtr(mat, 1, 2)] = 7

\* C16: a view of the whole matrix has the parent's pointer, leading
\* dimension and shape; a view at offsets (oi, oj) has base mat.ptr(oi, oj),
\* the parent's leading dimension and shape (rows - oi, cols - oj), or the
\* shape (ni, nj) it was given, empty shapes included; makeViewFromConst
\* gives what the constructor of the same arguments gives; and element
\* (i, j) of the view is the parent's (i + oi, j + oj).
C16_ViewMetadata ==
  Len(view) = 1 =>
    LET v == view[1]
        c == ops[1]
    IN  /\ v.ldm_ = mat.ld
        /\ v.ptr_ = MatrixPtr(mat, c.args[1], c.args[2])
        /\ c.op \in {"MatrixView(mat)", "makeViewFromConst(m)"} =>
             /\ v.ptr_ = mat.ptr
             /\ v.size_ = <<mat.rows, mat.cols>>
        /\ c.op \in {"MatrixView(mat, offset_i, offset_j)",
                     "makeViewFromConst(m, off_i, off_j)"} =>
             v.size_ = <<mat.rows - c.args[1], mat.cols - c.args[2]>>
        /\ c.op \in {"MatrixView(mat, offset_i, offset_j, ni, nj)",
                     "makeViewFromConst(m, off_i, off_j, n_i, n_j)"} =>
             v.size_ = <<c.args[3], c.args[4]>>
        /\ \A e \in Indices(v) :
             at(v, e[1], e[2]) =
               MatrixPtr(mat, e[1] + c.args[1], e[2] + c.args[2])

C16_Witness ==
  /\ Len(view) = 1
  /\ Len(ops) = 1
  /\ mat = Matrix(3, 4, 1)
  /\ ops[1].op = "makeViewFromConst(m, off_i, off_j, n_i, n_j)"
  /\ ops[1].args = <<0, 3, 1, 0>>
  /\ view[1].size_ = <<1, 0>>
  /\ view[1].ptr_ = mat.ptr + 3 * mat.ld

\* C17: view(i, j) fails its assertion exactly for the (i, j) outside
\* 0 <= i < rows, 0 <= j < cols.
C17_ElementBounds ==
  (Len(view) = 1 /\ Len(ops) = 2 /\ ops[2].op \in ElementOps) =>
    (ops[2].out # Aborted <=>
       /\ 0 <= ops[2].args[1] /\ ops[2].args[1] < nrRows(view[1])
       /\ 0 <= ops[2].args[2] /\ ops[2].args[2] < nrCols(view[1]))

C17_Witness ==
  /\ Len(view) = 1
  /\ Len(ops) = 2
  /\ view[1].size_ = <<3, 4>>
  /\ ops[2].op = "view(i, j)"
  /\ ops[2].args = <<0, 4>>
  /\ ops[2].out = Aborted

\* C18 as stated: ptr(i, j) is accepted exactly when 0 <= i < rows and
\* 0 <= j < cols.
C18_PtrSameBounds ==
  (Len(view) = 1 /\ Len(ops) = 2 /\ ops[2].op = "ptr(i, j)") =>
    (ops[2].out # Aborted <=>
       /\ 0 <= ops[2].args[1] /\ ops[2].args[1] < nrRows(view[1])
       /\ 0 <= ops[2].args[2] /\ ops[2].args[2] < nrCols(view[1]))

\* C18 amended: ptr(i, j) is accepted exactly when 0 <= i <= rows and
\* 0 <= j <= cols, the one-past-the-end row and column included, and then
\* returns base + i + j*ld.
C18_PtrInclusiveBounds ==
  (Len(view) = 1 /\ Len(ops) = 2 /\ ops[2].op = "ptr(i, j)") =>
    /\ ops[2].out # Aborted <=>
         /\ 0 <= ops[2].args[1] /\ ops[2].args[1] <= nrRows(view[1])
         /\ 0 <= ops[2].args[2] /\ ops[2].args[2] <= nrCols(view[1])
    /\ ops[2].out # Aborted =>
         ops[2].out = view[1].ptr_ + ops[2].args[1] +
                      ops[2].args[2] * view[1].ldm_

C18_Witness ==
  /\ Len(view) = 1
  /\ Len(ops) = 2
  /\ view[1].size_ = <<2, 2>>
  /\ ops[2].op = "ptr(i, j)"
  /\ ops[2].args = <<2, 1>>
  /\ ops[2].out = view[1].ptr_ + 2 + view[1].ldm_

AssignOps == {"view = rhs_view", "view = rhs_matrix"}

\* What every assignment leaves alone: the view as constructed and the cells
\* outside its window; an assignment of another shape aborts and writes
\* nothing.
AssignFrame ==
  LET v == view[1]
      o == ops[2]
  IN  /\ v.ptr_ = MatrixPtr(mat, ops[1].args[1], ops[1].args[2])
      /\ v.ldm_ = mat.ld
      /\ v.size_ = <<ops[1].args[3], ops[1].args[4]>>
      /\ \A a \in DOMAIN storage \ Window(v) : storage[a] = o.before[a]
      /\ DOMAIN storage = DOMAIN o.before
      /\ IF o.src[1].size_ = v.size_
           THEN o.out = 0
           ELSE o.out = Aborted /\ storage = o.before

\* The assignment copied every element of the source as it was, and the
\* source is as it was.
AssignCopied ==
  LET v == view[1]
      o == ops[2]
  IN  \A e \in Indices(v) :
        /\ storage[at(v, e[1], e[2])] = o.before[at(o.src[1], e[1], e[2])]
        /\ storage[at(o.src[1], e[1], e[2])] =
             o.before[at(o.src[1], e[1], e[2])]

\* C19 as stated: assigning a matrix or a view of equal shape copies every
\* element of the source into the window and changes nothing else, neither
\* the view, nor the source, nor a cell outside the window; a source of
\* another shape fails the assertion and nothing is written.
C19_CopyAssign ==
  (Len(view) = 1 /\ Len(ops) = 2 /\ ops[2].op \in AssignOps) =>
    /\ AssignFrame
    /\ ops[2].src[1].size_ = view[1].size_ => AssignCopied

\* C19 amended: the same, for a source of equal shape that shares no cell
\* with the window of the view or is that very window.
C19_CopyAssignDisjoint ==
  (Len(view) = 1 /\ Len(ops) = 2 /\ ops[2].op \in AssignOps) =>
    /\ AssignFrame
    /\ (/\ ops[2].src[1].size_ = view[1].size_
        /\ \/ Window(ops[2].src[1]) \cap Window(view[1]) = {}
           \/ ops[2].src[1] = view[1]) => AssignCopied

C19_Witness ==
  /\ Len(view) = 1
  /\ Len(ops) = 2
  /\ mat = Matrix(3, 4, 1)
  /\ view[1].size_ = <<2, 2>>
  /\ ops[1].args = <<1, 0, 2, 2>>
  /\ ops[2].op = "view = rhs_view"
  /\ ops[2].src[1].ptr_ = MatrixPtr(mat, 0, 2)
  /\ ops[2].out = 0
  /\ storage[MatrixPtr(mat, 2, 1)] = InitialValue(MatrixPtr(mat, 1, 3))

-----------------------------------------------------------------------------
(***************************************************************************)
(* symmetrize_single_particle_function::execute on the time domain, for a  *)
(* function of t and for a function of (b, b, t). The scalars are doubles; *)
(* the sampled values are even integers, for which the division by 2. is   *)
(* exact.                                                                  *)
(***************************************************************************)

\* Largest sizes of the time domain and of the band domain.
MaxTimes == 4
MaxBands == 2

\* t::dmn_size() is even.
TimeSizes == {n \in 1..MaxTimes : n % 2 = 0}

\* Sampled functions: the value at linear index ind.
Seeds == [a : (0 - 1)..1, c : 0..1, d : (0 - 1)..1]
Sample(seed, ind) == 2 * (seed.a * ind + seed.c * ind * ind + seed.d)

\* The elements of the domain t and of the domain (b, b, t).
Elements_t(nt) == 0..(nt - 1)
Elements_bbt(nb, nt) == (0..(nb - 1)) \X (0..(nb - 1)) \X (0..(nt - 1))

\* Linear index of (b0, b1, t): the leftmost index runs fastest.
LinearIndex(nb, e) == e[1] + nb * (e[2] + nb * e[3])

\* A function handed to execute: its domain, the sizes of the band, time,
\* frequency and cluster domains it is defined on, the symmetry table of the
\* cluster domain, and its values.
Function(dmn, nb, nt, nw, nr, sym, values) ==
  [dmn |-> dmn, bands |-> nb, times |-> nt, freqs |-> nw, sites |-> nr,
   sym |-> sym, values |-> values]

Functions_t ==
  {Function("t", 0, nt, 0, 0, <<>>, [i \in Elements_t(nt) |-> Sample(seed, i)]) :
     nt \in TimeSizes, seed \in Seeds}
  \cup {Function("t", 0, 4, 0, 0, <<>>, [i \in Elements_t(4) |-> i + 1])}

Functions_bbt ==
  {Function("b,b,t", nb, nt, 0, 0, <<>>,
            [e \in Elements_bbt(nb, nt) |-> Sample(seed, LinearIndex(nb, e))]) :
     nb \in 1..MaxBands, nt \in TimeSizes, seed \in Seeds}

\* Largest size of the frequency domains; w::dmn_size() is even.
MaxFreqs == 4
FrequencySizes == {n \in 1..MaxFreqs : n % 2 = 0}

\* A std::complex<double> is the pair of its real and imaginary parts. The
\* sampled parts are even integers.
ComplexSample(seed, ind) ==
  <<Sample(seed, ind), 2 * (seed.c + seed.d * ind - seed.a * ind * ind)>>

\* [1 + i, 2, 2, 1 - i] and [1, 0, 0, 0], both times 2: every pass is linear
\* over the reals, and the doubled values have even parts.
HermitianExample == <<<<2, 2>>, <<4, 0>>, <<4, 0>>, <<2, 0 - 2>>>>
UnitExample == <<<<2, 0>>, <<0, 0>>, <<0, 0>>, <<0, 0>>>>

\* The frequency domains with the symmetrization of w, and those without.
MatsubaraDomains == {"w", "w_VERTEX", "w_VERTEX_EXTENDED"}
RealAxisDomains == {"w_REAL", "b,b,w_REAL"}

Functions_w ==
  {Function(dmn, 0, 0, nw, 0, <<>>,
            [i \in Elements_t(nw) |-> ComplexSample(seed, i)]) :
     dmn \in MatsubaraDomains \cup {"w_REAL"}, nw \in FrequencySizes,
     seed \in Seeds}
  \cup {Function("w", 0, 0, 4, 0, <<>>, [i \in Elements_t(4) |-> z[i + 1]]) :
          z \in {HermitianExample, UnitExample}}

Functions_bbw ==
  {Function(dmn, nb, 0, nw, 0, <<>>,
            [e \in Elements_bbt(nb, nw) |->
               ComplexSample(seed, LinearIndex(nb, e))]) :
     dmn \in {"b,b,w", "b,b,w_REAL"}, nb \in 1..MaxBands,
     nw \in FrequencySizes, seed \in Seeds}

\* Sizes of the cluster domains r and k.
ClusterSizes == {1, 2, 3}

\* The permutations of the nr cluster sites, and the sets of them that are
\* groups under composition.
SitePermutations(nr) ==
  {p \in [0..(nr - 1) -> 0..(nr - 1)] :
     \A x, y \in 0..(nr - 1) : p[x] = p[y] => x = y}
IsGroup(G) ==
  /\ G # {}
  /\ \A p, q \in G : [x \in DOMAIN p |-> p[q[x]]] \in G
PointGroups(nr) == {G \in SUBSET SitePermutations(nr) : IsGroup(G)}

\* The elements of a set, in some order.
RECURSIVE Enumerate(_)
Enumerate(G) ==
  IF G = {} THEN <<>>
  ELSE LET p == CHOOSE q \in G : TRUE IN <<p>> \o Enumerate(G \ {p})

\* cluster_symmetry<...>::get_symmetry_matrix() for a set G of operations on
\* nr sites and nb bands: size is sym_super_cell_dmn_t::dmn_size(), and the
\* entry at (site, band, S) is the pair of the site and the band that the
\* operation S maps them to; the operations leave the bands in place.
SymmetryMatrix(G, nr, nb) ==
  LET operations == Enumerate(G)
  IN  [size  |-> Len(operations),
       table |-> [e \in (0..(nr - 1)) \X (0..(nb - 1)) \X
                        (0..(Len(operations) - 1)) |->
                    <<operations[e[3] + 1][e[1]], e[2]>>]]

\* The tables of the point groups of nr sites, and the table without any
\* operation.
SymmetryTables(nr, nb) ==
  {SymmetryMatrix(G, nr, nb) : G \in PointGroups(nr) \cup {{}}}

Elements_bbr(nb, nr) == (0..(nb - 1)) \X (0..(nb - 1)) \X (0..(nr - 1))

\* The values are multiples of 6, which every number of operations divides.
Functions_r ==
  UNION {{Function(dmn, 1, 0, 0, nr, sym,
                   [i \in Elements_t(nr) |-> 3 * Sample(seed, i)]) :
            dmn \in {"r", "k"}, sym \in SymmetryTables(nr, 1), seed \in Seeds} :
         nr \in ClusterSizes}

Functions_bbr ==
  UNION {{Function(dmn, nb, 0, 0, nr, sym,
                   [e \in Elements_bbr(nb, nr) |->
                      3 * Sample(seed, LinearIndex(nb, e))]) :
            dmn \in {"b,b,r", "b,b,k"}, sym \in SymmetryTables(nr, nb),
            seed \in Seeds} :
         nb \in 1..MaxBands, nr \in ClusterSizes}

\* Operations on (site, band) pairs: the band is kept or bands 0 and 1 are
\* exchanged, and the site is permuted by one permutation for band 0 and by
\* another one for the other bands.
BandPermutations(nb) ==
  {[b \in 0..(nb - 1) |-> b],
   [b \in 0..(nb - 1) |-> IF b = 0 THEN 1 ELSE IF b = 1 THEN 0 ELSE b]}
PairOperations(nr, nb) ==
  {[e \in (0..(nr - 1)) \X (0..(nb - 1)) |->
      <<(IF e[2] = 0 THEN p0 ELSE p1)[e[1]], q[e[2]]>>] :
     p0 \in SitePermutations(nr), p1 \in SitePermutations(nr),
     q \in BandPermutations(nb)}

\* The group generated by one operation g: its powers, h being the next.
RECURSIVE Powers(_, _, _)
Powers(g, h, acc) ==
  IF h \in acc THEN acc
  ELSE Powers(g, [e \in DOMAIN g |-> g[h[e]]], acc \cup {h})
CyclicGroup(g) == Powers(g, g, {})

\* get_symmetry_matrix() for a set G of operations on (site, band) pairs: the
\* entry at (site, band, S) is the pair the operation S maps them to.
PairSymmetryMatrix(G, nr, nb) ==
  LET operations == Enumerate(G)
  IN  [size  |-> Len(operations),
       table |-> [e \in (0..(nr - 1)) \X (0..(nb - 1)) \X
                        (0..(Len(operations) - 1)) |->
                    operations[e[3] + 1][<<e[1], e[2]>>]]]

PairSymmetryTables(nr, nb) ==
  {PairSymmetryMatrix(CyclicGroup(g), nr, nb) : g \in PairOperations(nr, nb)}

\* Functions of (b, b, r) and (b, b, k) with at least two bands and a table
\* of operations on (site, band) pairs. The values are multiples of 12,
\* which the order of each of these groups divides.
Functions_bbr_pairs ==
  UNION {{Function(dmn, nb, 0, 0, nr, sym,
                   [e \in Elements_bbr(nb, nr) |->
                      6 * Sample(seed, LinearIndex(nb, e))]) :
            dmn \in {"b,b,r", "b,b,k"}, sym \in PairSymmetryTables(nr, nb),
            seed \in Seeds} :
         nb \in 2..MaxBands, nr \in ClusterSizes}

\* The elements of (nu, nu, r, t) with nu = (b, s): band, spin, band, spin,
\* site, time; the two spins are 0 (up) and 1 (down).
Elements_nunu(nb, nr, nt) ==
  (0..(nb - 1)) \X {0, 1} \X (0..(nb - 1)) \X {0, 1} \X (0..(nr - 1)) \X
  (0..(nt - 1))
LinearIndex_nunu(nb, nr, e) ==
  e[1] + nb * (e[2] + 2 * (e[3] + nb * (e[4] + 2 * (e[5] + nr * e[6]))))

\* Functions of (nu, nu, f_dmn_0, f_dmn_1) with the real-space cluster as
\* f_dmn_0 and the time as f_dmn_1. The values are multiples of 24, so that
\* the three divisions that an element goes through are exact.
Functions_nunu ==
  UNION {{Function("nu,nu,r,t", nb, nt, 0, nr, sym,
                   [e \in Elements_nunu(nb, nr, nt) |->
                      12 * Sample(seed, LinearIndex_nunu(nb, nr, e))]) :
            nt \in TimeSizes, sym \in SymmetryTables(nr, nb), seed \in Seeds} :
         nb \in 1..MaxBands, nr \in ClusterSizes}

Functions ==
  Functions_t \cup Functions_bbt \cup Functions_w \cup Functions_bbw
  \cup Functions_r \cup Functions_bbr \cup Functions_bbr_pairs
  \cup Functions_nunu

\* Largest number of consecutive calls of execute on one function.
MaxPasses == 2

SymmetrizeInit ==
  /\ f_in \in Functions
  /\ f = f_in.values
  /\ assigned = [e \in DOMAIN f |-> 0]
  /\ executed = "none"
  /\ do_diff \in BOOLEAN
  /\ max = 0
  /\ cout = <<>>
  /\ exception = ""
  /\ passes = 0
  /\ NoSolver
  /\ NoLifecycle
  /\ NoView

Abs(x) == IF x < 0 THEN 0 - x ELSE x

\* std::max over the elements of S, starting from 0.
MaxOf(S) == CHOOSE x \in S \cup {0} : \A y \in S \cup {0} : y <= x

\* Variant: the throw after the diagnostic is active.
difference_Throws(val, out) ==
  IF Abs(val) > 0
    THEN [cout |-> Append(out.cout, Abs(val)), exception |-> "std::logic_error"]
    ELSE out

\* difference(val, function_name, dmn_name): prints the residual when it
\* exceeds 1.e-6, which for the integers of the model is when it is not 0;
\* the throw is commented out. out is what was printed and thrown before.
difference(val, out) ==
  IF Abs(val) > 0
    THEN [cout |-> Append(out.cout, Abs(val)), exception |-> out.exception]
    ELSE out

\* if (do_diff) difference(max, ...)
Diagnose(flag, val, out) == IF flag THEN difference(val, out) ELSE out

\* Variant: the residual is that of the first element only.
RECURSIVE execute_t_FirstResidual(_, _, _)
execute_t_FirstResidual(g, nt, k) ==
  IF k = 0 THEN [f |-> g, assigned |-> [e \in DOMAIN g |-> 0], max |-> 0]
  ELSE LET s     == execute_t_FirstResidual(g, nt, k - 1)
           shift == nt \div 2
           i     == k - 1
           tmp   == (s.f[i] - s.f[i + shift]) \div 2
       IN  [f |-> [s.f EXCEPT ![i] = tmp, ![i + shift] = 0 - tmp],
            assigned |-> [s.assigned EXCEPT ![i] = @ + 1,
                                            ![i + shift] = @ + 1],
            max |-> IF i = 0 THEN Abs((s.f[i] + s.f[i + shift]) \div 2)
                             ELSE s.max]

\* Variant: the shifted element receives tmp itself.
RECURSIVE execute_t_NoNegation(_, _, _)
execute_t_NoNegation(g, nt, k) ==
  IF k = 0 THEN [f |-> g, assigned |-> [e \in DOMAIN g |-> 0], max |-> 0]
  ELSE LET s     == execute_t_NoNegation(g, nt, k - 1)
           shift == nt \div 2
           i     == k - 1
           tmp   == (s.f[i] - s.f[i + shift]) \div 2
       IN  [f |-> [s.f EXCEPT ![i] = tmp, ![i + shift] = tmp],
            assigned |-> [s.assigned EXCEPT ![i] = @ + 1,
                                            ![i + shift] = @ + 1],
            max |-> MaxOf({s.max, Abs((s.f[i] + s.f[i + shift]) \div 2)})]

\* execute(function<scalartype, t>&): the function, the assignments to each
\* element and max after the first k iterations of the loop.
RECURSIVE execute_t(_, _, _)
execute_t(g, nt, k) ==
  IF k = 0 THEN [f |-> g, assigned |-> [e \in DOMAIN g |-> 0], max |-> 0]
  ELSE LET s     == execute_t(g, nt, k - 1)
           shift == nt \div 2
           i     == k - 1
           tmp   == (s.f[i] - s.f[i + shift]) \div 2
       IN  [f |-> [s.f EXCEPT ![i] = tmp, ![i + shift] = 0 - tmp],
            assigned |-> [s.assigned EXCEPT ![i] = @ + 1,
                                            ![i + shift] = @ + 1],
            max |-> MaxOf({s.max, Abs((s.f[i] + s.f[i + shift]) \div 2)})]

\* Variant: the second assignment keeps the band order.
RECURSIVE execute_bbt_SameBands(_, _, _, _)
execute_bbt_SameBands(g, nb, nt, k) ==
  IF k = 0 THEN [f |-> [e \in DOMAIN g |-> 0],
                 assigned |-> [e \in DOMAIN g |-> 0]]
  ELSE LET s     == execute_bbt_SameBands(g, nb, nt, k - 1)
           t_0   == nt \div 2
           t_ind == (k - 1) \div (nb * nb)
           b0    == ((k - 1) \div nb) % nb
           b1    == (k - 1) % nb
           tmp   == (g[<<b0, b1, t_ind>>] - g[<<b1, b0, t_ind + t_0>>]) \div 2
       IN  [f |-> [[s.f EXCEPT ![<<b0, b1, t_ind>>] = tmp]
                     EXCEPT ![<<b0, b1, t_ind + t_0>>] = 0 - tmp],
            assigned |-> [[s.assigned EXCEPT ![<<b0, b1, t_ind>>] = @ + 1]
                            EXCEPT ![<<b0, b1, t_ind + t_0>>] = @ + 1]]

\* execute(function<scalartype, dmn_variadic<b, b, t>>&): f_new, which starts
\* as zero, and the assignments to each of its elements after the first k
\* iterations of the loops over t_ind, b0 and b1; f is only read.
RECURSIVE execute_bbt(_, _, _, _)
execute_bbt(g, nb, nt, k) ==
  IF k = 0 THEN [f |-> [e \in DOMAIN g |-> 0],
                 assigned |-> [e \in DOMAIN g |-> 0]]
  ELSE LET s     == execute_bbt(g, nb, nt, k - 1)
           t_0   == nt \div 2
           t_ind == (k - 1) \div (nb * nb)
           b0    == ((k - 1) \div nb) % nb
           b1    == (k - 1) % nb
           tmp   == (g[<<b0, b1, t_ind>>] - g[<<b1, b0, t_ind + t_0>>]) \div 2
       IN  [f |-> [[s.f EXCEPT ![<<b0, b1, t_ind>>] = tmp]
                     EXCEPT ![<<b1, b0, t_ind + t_0>>] = 0 - tmp],
            assigned |-> [[s.assigned EXCEPT ![<<b0, b1, t_ind>>] = @ + 1]
                            EXCEPT ![<<b1, b0, t_ind + t_0>>] = @ + 1]]

\* A call of execute is possible on a function of the domain dmn.
CanExecute(dmn) ==
  /\ passes < MaxPasses
  /\ exception = ""
  /\ f_in.dmn = dmn

\* What every call of execute leaves behind: the function, the residual and
\* what difference printed.
Executed(dmn, f_out, residual, out) ==
  /\ f' = f_out
  /\ max' = residual
  /\ cout' = out.cout
  /\ exception' = out.exception
  /\ executed' = dmn
  /\ passes' = passes + 1
  /\ UNCHANGED <<f_in, do_diff, solver_vars, lifecycle_vars, view_vars>>

Execute_t ==
  /\ CanExecute("t")
  /\ LET r == execute_t(f, f_in.times, f_in.times \div 2)
     IN  /\ assigned' = r.assigned
         /\ Executed("t", r.f, r.max,
                     Diagnose(do_diff, r.max,
                              [cout |-> cout, exception |-> exception]))

\* The second loop takes the largest change of an element as max and copies
\* every element of f_new into f.
Execute_bbt ==
  /\ CanExecute("b,b,t")
  /\ LET r == execute_bbt(f, f_in.bands, f_in.times,
                          (f_in.times \div 2) * f_in.bands * f_in.bands)
         residual == MaxOf({Abs(f[ind] - r.f[ind]) : ind \in DOMAIN f})
     IN  /\ assigned' = r.assigned
         /\ Executed("b,b,t", [ind \in DOMAIN f |-> r.f[ind]], residual,
                     Diagnose(do_diff, residual,
                              [cout |-> cout, exception |-> exception]))

\* std::conj, +, - and /2. on std::complex<double>, and the square of abs.
conj(z) == <<z[1], 0 - z[2]>>
plus(y, z) == <<y[1] + z[1], y[2] + z[2]>>
minus(y, z) == <<y[1] - z[1], y[2] - z[2]>>
half(z) == <<z[1] \div 2, z[2] \div 2>>
abs2(z) == z[1] * z[1] + z[2] * z[2]

\* Variant: the mirror element receives tmp itself.
RECURSIVE execute_w_NoConj(_, _, _)
execute_w_NoConj(g, nw, k) ==
  IF k = 0 THEN [f |-> g, max |-> 0]
  ELSE LET s   == execute_w_NoConj(g, nw, k - 1)
           i   == k - 1
           tmp == half(plus(s.f[i], conj(s.f[nw - i - 1])))
       IN  [f |-> [s.f EXCEPT ![i] = tmp, ![nw - 1 - i] = tmp],
            max |-> MaxOf({s.max,
                           abs2(half(minus(s.f[i], conj(s.f[nw - i - 1]))))})]

\* execute(function<scalartype, w>&), and the same loop of the overloads for
\* w_VERTEX and w_VERTEX_EXTENDED: the function and max after the first k
\* iterations. max holds the square of the largest abs(...).
RECURSIVE execute_w(_, _, _)
execute_w(g, nw, k) ==
  IF k = 0 THEN [f |-> g, max |-> 0]
  ELSE LET s   == execute_w(g, nw, k - 1)
           i   == k - 1
           tmp == half(plus(s.f[i], conj(s.f[nw - i - 1])))
       IN  [f |-> [s.f EXCEPT ![i] = tmp, ![nw - 1 - i] = conj(tmp)],
            max |-> MaxOf({s.max,
                           abs2(half(minus(s.f[i], conj(s.f[nw - i - 1]))))})]

\* execute(function<scalartype, dmn_variadic<b, b, w>>&): f_new, which starts
\* as zero, after the first k iterations of the loops over w_ind, b0 and b1.
RECURSIVE execute_bbw(_, _, _, _)
execute_bbw(g, nb, nw, k) ==
  IF k = 0 THEN [e \in DOMAIN g |-> <<0, 0>>]
  ELSE LET f_new == execute_bbw(g, nb, nw, k - 1)
           w_0   == nw - 1
           w_ind == (k - 1) \div (nb * nb)
           b0    == ((k - 1) \div nb) % nb
           b1    == (k - 1) % nb
           tmp_0 == g[<<b0, b1, w_ind>>]
           tmp_1 == g[<<b1, b0, w_0 - w_ind>>]
           tmp   == half(plus(tmp_0, conj(tmp_1)))
       IN  [[f_new EXCEPT ![<<b0, b1, w_ind>>] = tmp]
              EXCEPT ![<<b1, b0, w_0 - w_ind>>] = conj(tmp)]

\* The overloads for w, w_VERTEX and w_VERTEX_EXTENDED.
Execute_w(dmn) ==
  /\ CanExecute(dmn)
  /\ LET r == execute_w(f, f_in.freqs, f_in.freqs \div 2)
     IN  Executed(dmn, r.f, r.max,
                  Diagnose(do_diff, r.max,
                           [cout |-> cout, exception |-> exception]))
  /\ UNCHANGED assigned

\* The second loop takes the largest change of an element as max and copies
\* every element of f_new into f.
Execute_bbw ==
  /\ CanExecute("b,b,w")
  /\ LET f_new == execute_bbw(f, f_in.bands, f_in.freqs,
                              (f_in.freqs \div 2) * f_in.bands * f_in.bands)
         residual == MaxOf({abs2(minus(f[ind], f_new[ind])) : ind \in DOMAIN f})
     IN  Executed("b,b,w", [ind \in DOMAIN f |-> f_new[ind]], residual,
                  Diagnose(do_diff, residual,
                           [cout |-> cout, exception |-> exception]))
  /\ UNCHANGED assigned

\* The overloads for w_REAL and (b, b, w_REAL) have empty bodies.
Execute_w_REAL(dmn) ==
  /\ CanExecute(dmn)
  /\ Executed(dmn, f, max, [cout |-> cout, exception |-> exception])
  /\ UNCHANGED assigned

\* What a double holds after 0. / 0.; no sampled value equals it.
NaN == 0 - 1

\* Variant: the sum over the operations is not divided by their number.
execute_r_NoDivision(g, nr, sym) ==
  LET f_new == [r_ind \in 0..(nr - 1) |->
                  SumOver([S_ind \in 0..(sym.size - 1) |->
                             g[sym.table[<<r_ind, 0, S_ind>>][1]]],
                          0..(sym.size - 1))]
  IN  IF sym.size > 0
        THEN [f |-> f_new, threw |-> "",
              max |-> MaxOf({Abs(g[ind] - f_new[ind]) : ind \in DOMAIN g})]
        ELSE [f |-> g, threw |-> "std::logic_error", max |-> 0]

\* execute on a function of the real-space cluster, and the same code of the
\* overload for the momentum-space cluster.
execute_r(g, nr, sym) ==
  LET f_new == [r_ind \in 0..(nr - 1) |->
                  SumOver([S_ind \in 0..(sym.size - 1) |->
                             g[sym.table[<<r_ind, 0, S_ind>>][1]]],
                          0..(sym.size - 1))]
  IN  IF sym.size > 0
        THEN LET f_avg == [r_ind \in 0..(nr - 1) |-> f_new[r_ind] \div sym.size]
             IN  [f |-> f_avg, threw |-> "",
                  max |-> MaxOf({Abs(g[ind] - f_avg[ind]) : ind \in DOMAIN g})]
        ELSE [f |-> g, threw |-> "std::logic_error", max |-> 0]

\* execute on a function of (b, b, r).
execute_bbr(g, nb, nr, sym) ==
  LET f_new == [e \in Elements_bbr(nb, nr) |->
                  SumOver([S_ind \in 0..(sym.size - 1) |->
                             LET R_new_ind == sym.table[<<e[3], 0, S_ind>>][1]
                                 b0_new == sym.table[<<0, e[1], S_ind>>][2]
                                 b1_new == sym.table[<<e[3], e[2], S_ind>>][2]
                             IN  g[<<b0_new, b1_new, R_new_ind>>]],
                          0..(sym.size - 1))]
  IN  IF sym.size > 0
        THEN LET f_avg == [e \in DOMAIN f_new |-> f_new[e] \div sym.size]
             IN  [f |-> f_avg, threw |-> "",
                  max |-> MaxOf({Abs(g[ind] - f_avg[ind]) : ind \in DOMAIN g})]
        ELSE [f |-> g, threw |-> "std::logic_error", max |-> 0]

\* execute on a function of (b, b, k): K_new_ind is read at the band b0, and
\* f_new is divided by the number of operations without a test. Without any
\* operation f_new is 0. / 0. everywhere, and std::max(max, NaN) keeps max.
execute_bbk(g, nb, nk, sym) ==
  LET f_new == [e \in Elements_bbr(nb, nk) |->
                  SumOver([S_ind \in 0..(sym.size - 1) |->
                             LET K_new_ind == sym.table[<<e[3], e[1], S_ind>>][1]
                                 b0_new == sym.table[<<0, e[1], S_ind>>][2]
                                 b1_new == sym.table[<<e[3], e[2], S_ind>>][2]
                             IN  g[<<b0_new, b1_new, K_new_ind>>]],
                          0..(sym.size - 1))]
  IN  IF sym.size > 0
        THEN LET f_avg == [e \in DOMAIN f_new |-> f_new[e] \div sym.size]
             IN  [f |-> f_avg, threw |-> "",
                  max |-> MaxOf({Abs(g[ind] - f_avg[ind]) : ind \in DOMAIN g})]
        ELSE [f |-> [e \in DOMAIN g |-> NaN], threw |-> "", max |-> 0]

\* The end of the four overloads for cluster domains: a throw leaves execute
\* before max is computed and before f is written.
ExecutedCluster(dmn, r) ==
  IF r.threw # ""
    THEN Executed(dmn, f, max, [cout |-> cout, exception |-> r.threw])
    ELSE Executed(dmn, r.f, r.max,
                  Diagnose(do_diff, r.max,
                           [cout |-> cout, exception |-> exception]))

\* The overloads for the real-space and the momentum-space cluster.
Execute_r(dmn) ==
  /\ CanExecute(dmn)
  /\ ExecutedCluster(dmn, execute_r(f, f_in.sites, f_in.sym))
  /\ UNCHANGED assigned

Execute_bbr ==
  /\ CanExecute("b,b,r")
  /\ ExecutedCluster("b,b,r", execute_bbr(f, f_in.bands, f_in.sites, f_in.sym))
  /\ UNCHANGED assigned

Execute_bbk ==
  /\ CanExecute("b,b,k")
  /\ ExecutedCluster("b,b,k", execute_bbk(f, f_in.bands, f_in.sites, f_in.sym))
  /\ UNCHANGED assigned

\* Variant: the two equal-spin blocks keep their own values.
symmetrize_over_electron_spin_NoAverage(g) ==
  [e \in DOMAIN g |-> IF e[2] # e[4] THEN 0 ELSE g[e]]

\* symmetrize_over_electron_spin: every iteration of the four loops writes
\* the four spin blocks of one (i, j, ind_0, ind_1), and reads no other.
symmetrize_over_electron_spin(g) ==
  [e \in DOMAIN g |->
     IF e[2] # e[4] THEN 0
     ELSE (g[<<e[1], 0, e[3], 0, e[5], e[6]>>] +
           g[<<e[1], 1, e[3], 1, e[5], e[6]>>]) \div 2]

\* First block of execute on (nu, nu, f_dmn_0, f_dmn_1) after the first k
\* iterations of the loops over ind_1 and spin_ind: f0 is copied out of f,
\* symmetrized by the overload for (b, b, r), which may throw, and copied
\* back. s is the function, what was printed and what was thrown.
RECURSIVE execute_nunu_f0(_, _, _, _, _, _)
execute_nunu_f0(s, nb, nr, sym, flag, k) ==
  IF k = 0 THEN s
  ELSE LET p == execute_nunu_f0(s, nb, nr, sym, flag, k - 1)
           ind_1    == (k - 1) \div 2
           spin_ind == (k - 1) % 2
           f0 == [e \in Elements_bbr(nb, nr) |->
                    p.f[<<e[1], spin_ind, e[2], spin_ind, e[3], ind_1>>]]
           r  == execute_bbr(f0, nb, nr, sym)
           out == Diagnose(flag, r.max, [cout |-> p.cout, exception |-> ""])
       IN  IF p.exception # "" THEN p
           ELSE IF r.threw # "" THEN [p EXCEPT !.exception = r.threw]
           ELSE [f |-> [e \in DOMAIN p.f |->
                          IF e[2] = spin_ind /\ e[4] = spin_ind /\ e[6] = ind_1
                            THEN r.f[<<e[1], e[3], e[5]>>] ELSE p.f[e]],
                 cout |-> out.cout, exception |-> out.exception, max |-> r.max]

\* Second block, after the first k iterations of the loops over ind_0 and
\* spin_ind: f1 is symmetrized by the overload for (b, b, t).
RECURSIVE execute_nunu_f1(_, _, _, _, _)
execute_nunu_f1(s, nb, nt, flag, k) ==
  IF k = 0 THEN s
  ELSE LET p == execute_nunu_f1(s, nb, nt, flag, k - 1)
           ind_0    == (k - 1) \div 2
           spin_ind == (k - 1) % 2
           f1 == [e \in Elements_bbt(nb, nt) |->
                    p.f[<<e[1], spin_ind, e[2], spin_ind, ind_0, e[3]>>]]
           f_new == execute_bbt(f1, nb, nt, (nt \div 2) * nb * nb).f
           residual == MaxOf({Abs(f1[ind] - f_new[ind]) : ind \in DOMAIN f1})
           out == Diagnose(flag, residual, [cout |-> p.cout, exception |-> ""])
       IN  IF p.exception # "" THEN p
           ELSE [f |-> [e \in DOMAIN p.f |->
                          IF e[2] = spin_ind /\ e[4] = spin_ind /\ e[5] = ind_0
                            THEN f_new[<<e[1], e[3], e[6]>>] ELSE p.f[e]],
                 cout |-> out.cout, exception |-> out.exception,
                 max |-> residual]

\* execute(function<scalartype, dmn_variadic<nu, nu, f_dmn_0, f_dmn_1>>&):
\* the spin equalization, then the two blocks.
execute_nunu(g, nb, nr, nt, sym, flag, out) ==
  execute_nunu_f1(
    execute_nunu_f0([f |-> symmetrize_over_electron_spin(g), cout |-> out.cout,
                     exception |-> out.exception, max |-> 0],
                    nb, nr, sym, flag, 2 * nt),
    nb, nt, flag, 2 * nr)

\* f is written element by element, so a throw leaves what was written.
Execute_nunu ==
  /\ CanExecute("nu,nu,r,t")
  /\ LET r == execute_nunu(f, f_in.bands, f_in.sites, f_in.times, f_in.sym,
                           do_diff, [cout |-> cout, exception |-> exception])
     IN  Executed("nu,nu,r,t", r.f, r.max,
                  [cout |-> r.cout, exception |-> r.exception])
  /\ UNCHANGED assigned

SymmetrizeNext ==
  \/ Execute_t
  \/ Execute_bbt
  \/ \E dmn \in MatsubaraDomains : Execute_w(dmn)
  \/ Execute_bbw
  \/ \E dmn \in RealAxisDomains : Execute_w_REAL(dmn)
  \/ \E dmn \in {"r", "k"} : Execute_r(dmn)
  \/ Execute_bbr
  \/ Execute_bbk
  \/ Execute_nunu

SpecSymmetrize == SymmetrizeInit /\ [][SymmetrizeNext]_vars

-----------------------------------------------------------------------------
\* C20: after the time symmetrization of a function of t, f(i) + f(i + Nt/2)
\* = 0 and f(i) = (f_old(i) - f_old(i + Nt/2))/2 for every i < Nt/2; after
\* that of a function of (b, b, t), f(b0, b1, i) + f(b1, b0, i + Nt/2) = 0
\* for every band pair and every i < Nt/2, and every element was assigned
\* exactly once.
C20_TimeAntiPeriodic ==
  /\ executed = "t" =>
       \A i \in 0..(f_in.times \div 2 - 1) :
         /\ f[i] + f[i + f_in.times \div 2] = 0
         /\ 2 * f[i] = f_in.values[i] - f_in.values[i + f_in.times \div 2]
  /\ executed = "b,b,t" =>
       /\ \A b0 \in 0..(f_in.bands - 1), b1 \in 0..(f_in.bands - 1),
             i \in 0..(f_in.times \div 2 - 1) :
            f[<<b0, b1, i>>] + f[<<b1, b0, i + f_in.times \div 2>>] = 0
       /\ \A e \in DOMAIN f : assigned[e] = 1

C20_Witness ==
  /\ executed = "b,b,t"
  /\ f_in.bands = 2
  /\ f_in.times = 4
  /\ f[<<0, 1, 0>>] # 0
  /\ f[<<0, 1, 0>>] # f_in.values[<<0, 1, 0>>]
  /\ f[<<1, 0, 2>>] = 0 - f[<<0, 1, 0>>]

-----------------------------------------------------------------------------
\* The residual of the time symmetrization of the function g of nt times.
TimeResidual2(g, nt) ==
  MaxOf({Abs(g[i] + g[i + nt \div 2]) : i \in 0..(nt \div 2 - 1)})

\* What difference prints for the residual val when the flag is set.
Printed(val) == IF do_diff /\ val > 0 THEN <<val>> ELSE <<>>

\* C21 as stated: the first scalar time symmetrization hands
\* max over i < Nt/2 of |(f(i) + f(i + Nt/2))/2|, taken on the input, to the
\* diagnostic; for Nt = 4 and f = [1, 2, 3, 4] the output is [-1, -1, 1, 1]
\* and the reported max is 2.
C21_ReportedResidual ==
  (executed = "t" /\ passes = 1) =>
    /\ 2 * max = TimeResidual2(f_in.values, f_in.times)
    /\ cout = Printed(max)
    /\ f_in.values = [i \in 0..3 |-> i + 1] =>
         /\ f = [i \in 0..3 |-> IF i < 2 THEN 0 - 1 ELSE 1]
         /\ max = 2

\* C21, amended: as above, but for f = [1, 2, 3, 4] the reported max is 3,
\* which is |(2 + 4)/2|.
C21_ReportedResidualThree ==
  (executed = "t" /\ passes = 1) =>
    /\ 2 * max = TimeResidual2(f_in.values, f_in.times)
    /\ cout = Printed(max)
    /\ f_in.values = [i \in 0..3 |-> i + 1] =>
         /\ f = [i \in 0..3 |-> IF i < 2 THEN 0 - 1 ELSE 1]
         /\ max = 3

C21_Witness ==
  /\ executed = "t"
  /\ passes = 1
  /\ do_diff
  /\ f_in.values = [i \in 0..3 |-> i + 1]
  /\ f = [i \in 0..3 |-> IF i < 2 THEN 0 - 1 ELSE 1]
  /\ cout = <<3>>

-----------------------------------------------------------------------------
\* C22: after the frequency symmetrization of a function of w of even size
\* Nw, f(i) = conj(f(Nw-1-i)) for every i, with f(i) = (f_old(i) +
\* conj(f_old(Nw-1-i)))/2 for i < Nw/2; the Hermitian [1+i, 2, 2, 1-i] is
\* unchanged with residual 0 and [1, 0, 0, 0] becomes [0.5, 0, 0, 0.5] (both
\* doubled here); after that of a function of (b, b, w), f(b0, b1, i) =
\* conj(f(b1, b0, Nw-1-i)).
C22_MatsubaraHermitian ==
  /\ executed = "w" =>
       /\ \A i \in DOMAIN f : f[i] = conj(f[f_in.freqs - 1 - i])
       /\ \A i \in 0..(f_in.freqs \div 2 - 1) :
            plus(f[i], f[i]) =
              plus(f_in.values[i], conj(f_in.values[f_in.freqs - 1 - i]))
       /\ f_in.values = [i \in 0..3 |-> HermitianExample[i + 1]] =>
            f = f_in.values /\ max = 0 /\ cout = <<>>
       /\ f_in.values = [i \in 0..3 |-> UnitExample[i + 1]] =>
            f = [i \in 0..3 |-> IF i \in {0, 3} THEN <<1, 0>> ELSE <<0, 0>>]
  /\ executed = "b,b,w" =>
       \A e \in DOMAIN f :
         f[e] = conj(f[<<e[2], e[1], f_in.freqs - 1 - e[3]>>])

C22_Witness ==
  /\ executed = "b,b,w"
  /\ f_in.bands = 2
  /\ f_in.freqs = 4
  /\ f # f_in.values
  /\ f[<<0, 1, 1>>][2] # 0
  /\ f[<<1, 0, 2>>] = conj(f[<<0, 1, 1>>])

-----------------------------------------------------------------------------
\* The site that the operation S_ind of the table maps the site r_ind to.
SiteImage(r_ind, S_ind) == f_in.sym.table[<<r_ind, 0, S_ind>>][1]

\* C25: for a table of a group of permutations of the sites, after the
\* scalar real-space or momentum-space cluster symmetrization f(r) = f(S(r))
\* for every site r and operation S, |G| f(r) is the sum over S of
\* f_old(S(r)), the sum of f over the sites is that of f_old, and a second
\* application leaves f as the first one left it.
C25_ClusterSymmetric ==
  (executed \in {"r", "k"} /\ f_in.sym.size > 0) =>
    /\ exception = ""
    /\ \A r_ind \in DOMAIN f, S_ind \in 0..(f_in.sym.size - 1) :
         f[r_ind] = f[SiteImage(r_ind, S_ind)]
    /\ \A r_ind \in DOMAIN f :
         f_in.sym.size * f[r_ind] =
           SumOver([S_ind \in 0..(f_in.sym.size - 1) |->
                      f_in.values[SiteImage(r_ind, S_ind)]],
                   0..(f_in.sym.size - 1))
    /\ SumOver(f, DOMAIN f) = SumOver(f_in.values, DOMAIN f)

C25_Witness ==
  /\ executed = "k"
  /\ passes = 2
  /\ f_in.sites = 3
  /\ f_in.sym.size = 3
  /\ f # f_in.values
  /\ f[0] # 0
  /\ f[0] = f[2]

\* C26: each of the four cluster symmetrizations, called with a table
\* without any operation, leaves with std::logic_error, and f is as it
\* was passed.
C26_EmptyGroupIsFatal ==
  (executed \in {"r", "k", "b,b,r", "b,b,k"} /\ f_in.sym.size = 0) =>
    /\ exception = "std::logic_error"
    /\ f = f_in.values

-----------------------------------------------------------------------------
\* C23: after execute on a function of (nu, nu, d0, d1), which runs the two
\* band-pair passes after the spin equalization, for every band pair and
\* every (d0, d1) index the up-down and down-up blocks are 0 and the up-up
\* block equals the down-down block.
C23_SpinSymmetric ==
  executed = "nu,nu,r,t" =>
    \A e \in DOMAIN f :
      /\ e[2] # e[4] => f[e] = 0
      /\ f[e] = f[<<e[1], 1 - e[2], e[3], 1 - e[4], e[5], e[6]>>]

C23_Witness ==
  /\ executed = "nu,nu,r,t"
  /\ exception = ""
  /\ f_in.bands = 2
  /\ f_in.sites = 3
  /\ f_in.sym.size = 6
  /\ f_in.values[<<0, 0, 1, 1, 0, 0>>] # 0
  /\ f_in.values[<<0, 0, 1, 0, 0, 0>>] # f_in.values[<<0, 1, 1, 1, 0, 0>>]
  /\ f[<<0, 0, 1, 0, 0, 0>>] # 0
  /\ f[<<0, 0, 1, 0, 0, 0>>] # f_in.values[<<0, 0, 1, 0, 0, 0>>]
  /\ f[<<0, 1, 1, 1, 0, 0>>] = f[<<0, 0, 1, 0, 0, 0>>]

-----------------------------------------------------------------------------
\* The passes on one domain each, and the call that starts with the spin
\* equalization.
ElementaryDomains ==
  {"t", "b,b,t", "b,b,w", "nu,nu,r,t"} \cup MatsubaraDomains
  \cup RealAxisDomains

-----------------------------------------------------------------------------
\* The function that one call of execute with do_diff = false makes of g.
QuietPass(fin, g) ==
  CASE fin.dmn = "t" -> execute_t(g, fin.times, fin.times \div 2).f
    [] fin.dmn = "b,b,t" ->
         execute_bbt(g, fin.bands, fin.times,
                     (fin.times \div 2) * fin.bands * fin.bands).f
    [] fin.dmn \in MatsubaraDomains ->
         execute_w(g, fin.freqs, fin.freqs \div 2).f
    [] fin.dmn = "b,b,w" ->
         execute_bbw(g, fin.bands, fin.freqs,
                     (fin.freqs \div 2) * fin.bands * fin.bands)
    [] fin.dmn \in RealAxisDomains -> g
    [] fin.dmn \in {"r", "k"} -> execute_r(g, fin.sites, fin.sym).f
    [] fin.dmn = "b,b,r" -> execute_bbr(g, fin.bands, fin.sites, fin.sym).f
    [] fin.dmn = "b,b,k" -> execute_bbk(g, fin.bands, fin.sites, fin.sym).f
    [] fin.dmn = "nu,nu,r,t" ->
         execute_nunu(g, fin.bands, fin.sites, fin.times, fin.sym, FALSE,
                      [cout |-> <<>>, exception |-> ""]).f

RECURSIVE QuietPasses(_, _)
QuietPasses(fin, n) ==
  IF n = 0 THEN fin.values ELSE QuietPass(fin, QuietPasses(fin, n - 1))

\* C27: whatever do_diff is, the function is what the same calls with
\* do_diff = false make of the input; without the flag nothing is printed,
\* with it the residuals above the tolerance are printed, the last of them
\* being max when max is above it; and an exception leaves execute only for
\* a symmetry table without operations, never for a residual.
C27_DiffObservational ==
  /\ f = QuietPasses(f_in, passes)
  /\ ~do_diff => cout = <<>>
  /\ \A n \in DOMAIN cout : cout[n] > 0
  /\ (do_diff /\ max > 0 /\ exception = "") =>
       (cout # <<>> /\ cout[Len(cout)] = max)
  /\ exception # "" =>
       /\ f_in.dmn \in {"r", "k", "b,b,r", "b,b,k", "nu,nu,r,t"}
       /\ f_in.sym.size = 0

C27_Witness ==
  /\ executed = "nu,nu,r,t"
  /\ do_diff
  /\ passes = 1
  /\ exception = ""
  /\ Len(cout) > 2
  /\ f # f_in.values

-----------------------------------------------------------------------------
\* C28 as stated: no step pushes an accumulator onto the idle stack while
\* walk_finished_ equals the number of walkers.
C28_NoPushWhenFinished ==
  [][\A t \in Threads :
       (pc[t] = "push" /\ pc'[t] = "notify") =>
         walk_finished_ < parameters_.walkers]_vars

\* C28, amended: an accumulator goes on to push only if walk_finished_ is
\* below the number of walkers when it takes mutex_queue_, and it pushes
\* while it holds mutex_queue_.
C28_PushDecidedUnderLock ==
  [][\A t \in Threads :
       /\ (pc[t] = "lock_queue" /\ pc'[t] = "push") =>
            (walk_finished_ < parameters_.walkers /\ mutex_queue_' = t)
       /\ (pc[t] = "push" /\ pc'[t] = "notify") => mutex_queue_ = t]_vars

C28_Witness ==
  \E t \in Threads, w \in Threads :
    /\ pc[t] = "notify"
    /\ accumulators_queue_ # <<>>
    /\ top(accumulators_queue_) = t
    /\ walk_finished_ = parameters_.walkers
    /\ pc[w] = "drain_lock"

-----------------------------------------------------------------------------
\* The accumulator thread t calls accumulator_obj.measure() in this step.
CallsMeasure(t) == pc[t] = "measure" /\ pc'[t] = "lock_queue"

AccumulatorLeftLoop(a) == pc[a] \in {"merge_lock", "sum_to", "finished"}

\* The accumulator thread is in its loop between its push and the return of
\* waitForQmciWalker, and no termination was signalled to it yet.
StillWaiting(a) ==
  /\ pc[a] \in {"notify", "wait_walker"}
  /\ ~accumulator_obj[a].done

\* The step of the drain loop of walker t that calls top()->notifyDone() on
\* accumulator a and pops it.
DrainNotifies(t, a) ==
  /\ pc[t] = "drain"
  /\ accumulators_queue_ # <<>>
  /\ top(accumulators_queue_) = a
  /\ accumulators_queue_' # accumulators_queue_

-----------------------------------------------------------------------------
(***************************************************************************)
(* Successive DCA iterations on one coordinator, thread by thread: after   *)
(* integrate() has returned, initialize(iteration) is called again and the *)
(* walkers of the next integrate() find the snapshots of the previous one. *)
(***************************************************************************)

IterationsInit ==
  /\ Init
  /\ concurrency_.number_of_processors = 1

\* Variant: the next iteration starts with the counters of the previous one.
InitializeNext_KeepCounters ==
  /\ mainpc = "integrated"
  /\ dca_iteration_ + 1 < MaxIterations
  /\ dca_iteration_' = dca_iteration_ + 1
  /\ accumulator_' = NewGlobalAccumulator
  /\ mainpc' = "initialized"
  /\ UNCHANGED <<parameters_, concurrency_, walk_finished_, measurements_done_,
                 accumulators_queue_, mutex_queue_,
                 mutex_merge_, queue_insertion_, config_dump_, pc, meas_id,
                 acc_ptr, walker, accumulator_obj, future_idx,
                 hdf5_files, calls, pool_size, handle_size, run,
                 view_vars, symmetrize_vars>>

\* initialize(dca_iteration) of the next iteration: the counters are reset
\* and the call is forwarded to the embedded solver, which starts its
\* accumulator afresh.
InitializeNext ==
  /\ mainpc = "integrated"
  /\ dca_iteration_ + 1 < MaxIterations
  /\ dca_iteration_' = dca_iteration_ + 1
  /\ walk_finished_' = 0
  /\ measurements_done_' = 0
  /\ accumulator_' = NewGlobalAccumulator
  /\ mainpc' = "initialized"
  /\ UNCHANGED <<parameters_, concurrency_, accumulators_queue_, mutex_queue_,
                 mutex_merge_, queue_insertion_, config_dump_, pc, meas_id,
                 acc_ptr, walker, accumulator_obj, future_idx,
                 hdf5_files, calls, pool_size, handle_size, run,
                 view_vars, symmetrize_vars>>

NextIterations ==
  \/ Next
  \/ InitializeNext

SpecIterations == IterationsInit /\ [][NextIterations]_vars

\* The calls of a given name in the trace of a walker, by position.
WalkerCalls(tr, name) == {i \in 1..Len(tr) : tr[i][1] = name}

\* The thread has created its walker and is past initializeAndWarmUp.
Warmed(t) == t \in WalkerOwners /\ mainpc = "joining" /\ pc[t] # "start"

\* The buffer of slot w at the start of the current integrate(): empty in
\* the first iteration, else what the owner of w dumped in the previous one.
SnapshotAtStart(t) ==
  IF dca_iteration_ = 0 THEN 0
  ELSE (dca_iteration_ - 1) * MaxThreads + t + 1

\* The calls on the walker of thread t up to the end of its warm-up, against
\* the snapshot its slot held at the start of integrate().
ReadConfigBeforeInitializeOnce(t) ==
  LET tr == walker[t].trace
      snapshot == SnapshotAtStart(t)
  IN  /\ Cardinality(WalkerCalls(tr, "initialize")) = 1
      /\ snapshot # 0 => tr[1] = <<"readConfig", snapshot>>
      /\ \A i \in WalkerCalls(tr, "readConfig") :
           \A j \in WalkerCalls(tr, "initialize") : i < j

\* C32: in every thread that owns a walker, readConfig is called with the
\* buffer of its walker index when that buffer is not empty, before the
\* first initialize() of the walker, and initialize() is called exactly once
\* on the walker in a run.
C32_ReadConfigBeforeInitializeOnce ==
  \A t \in Threads : Warmed(t) => ReadConfigBeforeInitializeOnce(t)

\* The calls on the walker of thread t against the warm-up length: initialize,
\* then warm_up sweeps and nothing else, then is_thermalized, then sweeps
\* each followed by the updateFrom that hands it over.
WarmUpOrdering(t) ==
  LET tr == walker[t].trace
      Wu == parameters_.warm_up
      th == WalkerCalls(tr, "is_thermalized")
      sw == WalkerCalls(tr, "doSweep")
      up == WalkerCalls(tr, "updateFrom")
  IN  /\ Cardinality(th) = 1
      /\ walker[t].thermalized
      /\ walker[t].sweeps = Cardinality(sw)
      /\ \A k \in th :
           /\ k - Wu - 1 >= 1
           /\ tr[k - Wu - 1][1] = "initialize"
           /\ \A i \in (k - Wu)..(k - 1) : tr[i][1] = "doSweep"
           /\ \A i \in sw : i >= k - Wu
           /\ \A i \in up : i - 1 > k /\ tr[i - 1][1] = "doSweep"
           /\ \A i \in sw :
                i > k => (i = Len(tr) \/ tr[i + 1][1] = "updateFrom")
      /\ Cardinality(sw) =
           Wu + Cardinality(up) +
           (IF pc[t] \in {"wait_queue", "waiting", "update"} THEN 1 ELSE 0)

\* C33: every walker does exactly warm_up sweeps after initialize() and
\* before its first measurement sweep, no warm-up sweep is handed to an
\* accumulator, is_thermalized is set after the last warm-up sweep and before
\* the first updateFrom, and the sweeps of a walker in a run are warm_up plus
\* the number of its measurements.
C33_WarmUpOrdering ==
  \A t \in Threads : Warmed(t) => WarmUpOrdering(t)

\* A walker thread that read a snapshot, warmed up with one sweep and
\* handed over two measurement sweeps.
C33_Witness ==
  \E t \in WalkerThreads :
    /\ Warmed(t)
    /\ parameters_.warm_up = 1
    /\ Len(walker[t].trace) = 8
    /\ walker[t].trace[1][1] = "readConfig"
    /\ walker[t].trace[8][1] = "updateFrom"

\* The walker-owning threads that have left their measurement loop, and
\* those of them that have counted themselves in walk_finished_.
OutOfLoop == {t \in WalkerOwners : LeftLoop(t)}
Counted == {t \in WalkerOwners : LeftLoop(t) /\ pc[t] # "loop_exit"}

DrainFinished ==
  /\ mainpc = "joining"
  /\ WalkerThreads # {}
  /\ walk_finished_ = parameters_.walkers
  /\ \A t \in Threads : pc[t] \notin {"drain_lock", "drain"}

\* C35: once the drain of the last walker has finished the idle stack is
\* empty and stays empty until integrate() returns: no accumulator thread
\* is about to push, an accumulator thread that takes the queue mutex
\* afterwards leaves its loop without pushing, and every accumulator still
\* at its wait has been given a sample or notifyDone.
C35_EmptyAfterDrain ==
  /\ [](DrainFinished =>
          /\ accumulators_queue_ = <<>>
          /\ \A a \in AccumulatorThreads :
               /\ pc[a] # "push"
               /\ pc[a] \in {"notify", "wait_walker"} =>
                    (accumulator_obj[a].done \/ accumulator_obj[a].measuring))
  /\ [][(DrainFinished /\ mainpc' = "joining") => DrainFinished']_vars
  /\ [][\A a \in AccumulatorThreads :
          (DrainFinished /\ pc[a] = "lock_queue" /\ pc'[a] # pc[a]) =>
            /\ pc'[a] = "merge_lock"
            /\ accumulators_queue_' = <<>>]_vars

\* After the drain one accumulator was signalled and another one, busy with
\* a sample during the drain, is about to take the queue mutex.
C35_Witness ==
  /\ DrainFinished
  /\ \E a, b \in AccumulatorThreads :
       /\ pc[a] = "lock_queue"
       /\ ~accumulator_obj[a].done
       /\ accumulator_obj[a].measures > 0
       /\ accumulator_obj[b].done

\* The walker-owning thread that uses walker index w.
OwnersOf(w) == {t \in WalkerOwners : walker_index(t) = w}

\* C36: at the return of every integrate() each slot w in [0, W) was written
\* exactly once, by the one thread that owns walker index w, with the
\* dumpConfig() of its walker; a slot changes only in that step; in the next
\* iteration the walker of index w calls readConfig exactly once, with that
\* buffer; no two threads of a run share a walker index (snapshot slot and
\* RNG), and every index is in [0, W).
C36_InMemoryResumable ==
  /\ [](mainpc \in {"joining", "integrated"} =>
          /\ \A t \in WalkerOwners :
               walker_index(t) \in 0..(parameters_.walkers - 1)
          /\ \A w \in 0..(parameters_.walkers - 1) :
               Cardinality(OwnersOf(w)) = 1)
  /\ [](mainpc = "integrated" =>
          \A w \in 0..(parameters_.walkers - 1) :
            \A t \in OwnersOf(w) :
              /\ Cardinality(WalkerCalls(walker[t].trace, "dumpConfig")) = 1
              /\ walker[t].trace[Len(walker[t].trace)] =
                   <<"dumpConfig", config_dump_[w]>>
              /\ config_dump_[w] = dumpConfig(t))
  /\ [][\A w \in DOMAIN config_dump_ :
          config_dump_'[w] # config_dump_[w] =>
            \E t \in OwnersOf(w) :
              /\ pc[t] = "dump" /\ pc'[t] = "finished"
              /\ WalkerCalls(walker[t].trace, "dumpConfig") = {}]_vars
  /\ [](\A t \in Threads :
          (Warmed(t) /\ dca_iteration_ > 0) =>
            \E i \in 1..Len(walker[t].trace) :
              /\ WalkerCalls(walker[t].trace, "readConfig") = {i}
              /\ walker[t].trace[i] = <<"readConfig", SnapshotAtStart(t)>>)

\* In the second iteration with two walkers one has dumped again and the
\* other has read what it dumped in the first iteration.
C36_Witness ==
  /\ dca_iteration_ = 1
  /\ mainpc = "joining"
  /\ \E t, u \in WalkerOwners :
       /\ t # u
       /\ pc[t] = "finished"
       /\ config_dump_[walker_index(t)] = MaxThreads + t + 1
       /\ Warmed(u)
       /\ config_dump_[walker_index(u)] = u + 1
       /\ <<"readConfig", u + 1>> \in
            {walker[u].trace[i] : i \in 1..Len(walker[u].trace)}

-----------------------------------------------------------------------------
\* The derivation that produced the view, or tried to, was accepted.
Accepted == ops[1].out # Aborted

\* The five-argument derivations accept exactly the blocks inside the parent.
BlockFitsParent ==
  (Len(ops) >= 1 /\
   ops[1].op \in {"MatrixView(mat, offset_i, offset_j, ni, nj)",
                  "makeViewFromConst(m, off_i, off_j, n_i, n_j)"}) =>
    LET a == ops[1].args
    IN  Accepted <=> (a[1] + a[3] <= mat.rows /\ a[2] + a[4] <= mat.cols)

\* The two-offset derivations accept exactly the offsets inside the parent.
OffsetInsideParent ==
  (Len(ops) >= 1 /\
   ops[1].op \in {"MatrixView(mat, offset_i, offset_j)",
                  "makeViewFromConst(m, off_i, off_j)"}) =>
    LET a == ops[1].args
    IN  Accepted <=> (a[1] < mat.rows /\ a[2] < mat.cols)

\* C37: in a debug build the offset derivations accept exactly the requests
\* that fit the parent: (mat, oi, oj, ni, nj) iff oi + ni <= rows and
\* oj + nj <= cols; (mat, oi, oj) iff oi < rows and oj < cols, for square
\* and non-square parents.
C37_OffsetsFitParent == BlockFitsParent /\ OffsetInsideParent

\* C38: print() reads exactly the elements (i, j) of the window, 0 <= i <
\* rows and 0 <= j < cols, each once, fails no bounds assertion of
\* operator(), and changes neither the view nor the storage, for every
\* shape of the view.
C38_PrintInsideWindow ==
  (Len(ops) = 2 /\ ops[2].op = "print") =>
    LET v == view[1]
        reads == ops[2].args
    IN  /\ ops[2].out # Aborted
        /\ {reads[k] : k \in 1..Len(reads)} =
             (0..(nrRows(v) - 1)) \X (0..(nrCols(v) - 1))
        /\ Len(reads) = nrRows(v) * nrCols(v)
        /\ storage = ops[2].before


\* What the band-pair routines leave behind on a table of a finite group:
\* the momentum-space routine leaves what the real-space one computes from
\* the same input, and the result takes the same value at (b0, b1, k) and at
\* its image under each operation S, the site image being read at band 0.
SameAsRealSpace ==
  f = execute_bbr(f_in.values, f_in.bands, f_in.sites, f_in.sym).f
InvariantUnderGroup ==
  \A e \in DOMAIN f : \A S_ind \in 0..(f_in.sym.size - 1) :
    f[e] = f[<<f_in.sym.table[<<0, e[1], S_ind>>][2],
               f_in.sym.table[<<e[3], e[2], S_ind>>][2],
               f_in.sym.table[<<e[3], 0, S_ind>>][1]>>]

\* C39: after one band-pair momentum-space symmetrization on a table of a
\* finite group acting on (k, band) pairs, f(b0, b1, k) = f(b0', b1', S(k))
\* for every operation S, with S(k) the table's first component at band 0,
\* and f is what the real-space band-pair routine computes from that input.
C39_BandPairMomentumSymmetric ==
  (executed = "b,b,k" /\ passes = 1 /\ f_in.sym.size > 0)
    => (SameAsRealSpace /\ InvariantUnderGroup)
====
